---------------------------- MODULE Spec2Model ----------------------------
(***************************************************************************)
(* A model of clockie's surface placement and control controller           *)
(* (src/src/wayland.rs, src/src/config.rs, src/src/renderer/mod.rs).       *)
(*                                                                         *)
(* Every handler of struct Clockie is one action.  Lengths are logical     *)
(* pixels; pointer positions are counted in 1/Subpixel of a pixel, so that *)
(* the f64 -> i32 conversion of the drag offset truncates in the model as  *)
(* it does in the code.                                                    *)
(***************************************************************************)
EXTENDS Integers, Sequences, FiniteSets, TLC

\* ------------------------------------------------------------------ bounds

\* Pointer positions are multiples of 1/Subpixel pixel.
Subpixel == 2
\* The pointer travels DragReach pixels (plus a fraction) in one motion.
DragReach == 1700
\* Motion events that would push a margin past MaxMargin are not generated.
MaxMargin == 1720
\* Font sizes and diameters above these are not requested.
MaxFontSize == 48
MaxDiameter == 180
\* The grid unit of the output layouts drawn for the adjacency queries.
GridUnit == 100
\* Number of move-to-output commands recorded in one cycling run.
MaxTrail == 4
\* Connections clients make to the control socket in one run.
MaxClients == 2
\* Frames counted on one surface; further frames leave the count as it is.
MaxFrames == 2
\* Daemon instances started on one socket path.
MaxInstances == 3
\* The width in bits of the words u32 and i32 of the arithmetic of scale-by.
WordBits == 16
\* The number of scale-by commands of one run.
MaxScales == 2

\* ------------------------------------------------------- program constants

BTN_LEFT == 272
MinFontSize == 10
MinDiameter == 40
DefaultMargin == 20
DefaultFontSize == 48
DefaultDiameter == 180
AnaloguePad == 12

\* ------------------------------------------------------------ basic values

NoOutput == "none"
\* No file at the socket path.
NoSocket == 0
OutputIds == {"A", "B", "C"}

Edges == {"top", "bottom", "left", "right"}
Directions == {"Left", "Right", "Up", "Down"}
NoDirection == "NoDirection"

Max(a, b) == IF a >= b THEN a ELSE b
Min(a, b) == IF a <= b THEN a ELSE b
Abs(a) == IF a < 0 THEN -a ELSE a
Range(s) == {s[i] : i \in 1..Len(s)}

\* Option<(i32, i32)>: <<>> is None, <<a, b>> is Some((a, b)).
UnwrapOr(opt, default) == IF opt = <<>> THEN default ELSE opt

\* f64 as i32: truncation toward zero of a length given in 1/Subpixel pixel.
AsI32(d) == IF d >= 0 THEN d \div Subpixel ELSE -((-d) \div Subpixel)

\* f32::ceil() as u32 of a non-negative length given in 1/1000 pixel.
CeilMilli(m) == (m + 999) \div 1000


\* --------------------------------------------------------------- variables

VARIABLES
    outputs,          \* output_state.outputs(): known outputs, discovery order
    info,             \* output_state.info(o): name, logical position and size
    current_output,   \* Clockie::current_output (NoOutput is None)
    anchor,           \* Clockie::anchor, a set of edges
    config,           \* Clockie::config, the fields the controller uses
    compact,          \* Clockie::compact
    width,            \* Clockie::width
    height,           \* Clockie::height
    configured,       \* Clockie::configured
    needs_redraw,     \* Clockie::needs_redraw
    locked,           \* Clockie::locked
    dragging,         \* Clockie::dragging
    drag_start,       \* Clockie::drag_start, in 1/Subpixel pixel
    drag_margins,     \* Clockie::drag_margins: <<top, right, bottom, left>>
    file,             \* the configuration file at config_path
    fx,               \* what the last handler did: save calls, recreate_surface calls
    locked_press,     \* a press was ignored because of the lock, no unlocked press since
    trail,            \* the results of the commands of a run, in order
    query,            \* the last call or request and its result
    phase,            \* run(): the step of the event loop that comes next
    backlog,          \* connections made to the control socket, not yet accepted
    conn,             \* handle_ipc_connection: the accepted connection (<<>> is none)
    served,           \* what became of the accepted connections, in order
    connected,        \* number of connections clients have made
    surface,          \* the layer surface: configure received, frames drawn on it
    should_quit,      \* Clockie::should_quit
    running,          \* run(): the flag the signal handler clears
    socket,           \* the file at the socket path: the instance that bound it, or none
    instances,        \* the step each daemon instance is at
    client            \* a run of the ctl client: command, response, exit status

pvars == <<outputs, info, current_output, anchor, config, compact, width, height,
           configured, needs_redraw, locked, dragging, drag_start, drag_margins, file>>
gvars == <<fx, locked_press, trail, query>>
svars == <<should_quit, running, socket, instances, client>>
lvars == <<phase, backlog, conn, served, connected, surface, svars>>
vars == <<pvars, gvars, lvars>>

\* A surface just created: no configure event received, no frame drawn on it.
FreshSurface == [handshake |-> FALSE, frames |-> 0]

\* The event loop at its first poll: one instance, running, its socket file bound,
\* no client of the control socket yet, no run of the ctl client.
LoopIdle ==
    /\ phase = "poll"
    /\ backlog = <<>>
    /\ conn = <<>>
    /\ served = <<>>
    /\ connected = 0
    /\ surface = FreshSurface
    /\ should_quit = FALSE
    /\ running = TRUE
    /\ socket = 1
    /\ instances = <<"running">>
    /\ client = <<>>

\* ---------------------------------------------------------------- topology

Known(o) == o \in Range(outputs)

\* OutputInfo::logical_position / logical_size with the code's unwrap_or((0, 0)).
PosOf(o) == UnwrapOr(info[o].logical_position, <<0, 0>>)
SizeOf(o) == UnwrapOr(info[o].logical_size, <<0, 0>>)

\* A faulty variant of the adjacency test: Left and Up measure with the current output's size.
IsAdjacentOneWay(cur, o, direction) ==
    LET cx == PosOf(cur)[1]  cy == PosOf(cur)[2]
        cw == SizeOf(cur)[1] ch == SizeOf(cur)[2]
        ox == PosOf(o)[1]    oy == PosOf(o)[2]
        ow == SizeOf(o)[1]   oh == SizeOf(o)[2]
    IN CASE direction = "Right" -> ox = cx + cw /\ oy < cy + ch /\ oy + oh > cy
         [] direction = "Left"  -> ox + cw = cx /\ oy < cy + ch /\ oy + oh > cy
         [] direction = "Down"  -> oy = cy + ch /\ ox < cx + cw /\ ox + ow > cx
         [] direction = "Up"    -> oy + ch = cy /\ ox < cx + cw /\ ox + ow > cx

\* The adjacency test of find_adjacent_output for candidate o seen from cur.
IsAdjacent(cur, o, direction) ==
    LET cx == PosOf(cur)[1]  cy == PosOf(cur)[2]
        cw == SizeOf(cur)[1] ch == SizeOf(cur)[2]
        ox == PosOf(o)[1]    oy == PosOf(o)[2]
        ow == SizeOf(o)[1]   oh == SizeOf(o)[2]
    IN CASE direction = "Right" -> ox = cx + cw /\ oy < cy + ch /\ oy + oh > cy
         [] direction = "Left"  -> ox + ow = cx /\ oy < cy + ch /\ oy + oh > cy
         [] direction = "Down"  -> oy = cy + ch /\ ox < cx + cw /\ ox + ow > cx
         [] direction = "Up"    -> oy + oh = cy /\ ox < cx + cw /\ ox + ow > cx

\* The tie-break distance of find_adjacent_output (integer midpoints, i32 division).
CenterDist(cur, o, direction) ==
    LET cx == PosOf(cur)[1]  cy == PosOf(cur)[2]
        cw == SizeOf(cur)[1] ch == SizeOf(cur)[2]
        ox == PosOf(o)[1]    oy == PosOf(o)[2]
        ow == SizeOf(o)[1]   oh == SizeOf(o)[2]
    IN IF direction \in {"Right", "Left"}
       THEN Abs((oy + oh \div 2) - (cy + ch \div 2))
       ELSE Abs((ox + ow \div 2) - (cx + cw \div 2))

\* A faulty variant of the scan: a later candidate at equal or larger distance replaces the best.
RECURSIVE AdjacentScanLastWins(_, _, _, _)
AdjacentScanLastWins(cur, direction, i, best) ==
    IF i > Len(outputs) THEN best
    ELSE LET o == outputs[i]
         IN IF o # cur /\ IsAdjacent(cur, o, direction)
            THEN AdjacentScanLastWins(cur, direction, i + 1, <<o, CenterDist(cur, o, direction)>>)
            ELSE AdjacentScanLastWins(cur, direction, i + 1, best)

\* The loop of find_adjacent_output over outputs(): best is <<>> or <<output, dist>>.
RECURSIVE AdjacentScan(_, _, _, _)
AdjacentScan(cur, direction, i, best) ==
    IF i > Len(outputs) THEN best
    ELSE LET o == outputs[i]
             d == CenterDist(cur, o, direction)
         IN IF o # cur /\ IsAdjacent(cur, o, direction) /\ (best = <<>> \/ d < best[2])
            THEN AdjacentScan(cur, direction, i + 1, <<o, d>>)
            ELSE AdjacentScan(cur, direction, i + 1, best)

\* find_adjacent_output with self.current_output = cur.
FindAdjacentFrom(cur, direction) ==
    IF cur = NoOutput \/ ~Known(cur) THEN NoOutput
    ELSE LET best == AdjacentScan(cur, direction, 1, <<>>)
         IN IF best = <<>> THEN NoOutput ELSE best[1]

FindAdjacentOutput(direction) == FindAdjacentFrom(current_output, direction)

\* find_output_by_name: the first known output whose name is Some(name).
FindOutputByName(name) ==
    LET hits == {i \in 1..Len(outputs) : info[outputs[i]].name = <<name>>}
    IN IF hits = {} THEN NoOutput
       ELSE outputs[CHOOSE i \in hits : \A j \in hits : i <= j]

\* position(|o| o == current).unwrap_or(0), as a 1-based index.
CurrentIdxFrom(cur) ==
    LET hits == {i \in 1..Len(outputs) : outputs[i] = cur}
    IN IF cur = NoOutput \/ hits = {} THEN 1
       ELSE CHOOSE i \in hits : \A j \in hits : i <= j

\* A faulty variant of find_output_cycle: backwards steps forward.
FindOutputCycleFromStuck(cur, forward) ==
    IF Len(outputs) <= 1 THEN NoOutput
    ELSE outputs[(((CurrentIdxFrom(cur) - 1) + 1) % Len(outputs)) + 1]

\* find_output_cycle with self.current_output = cur (indices are 0-based in the code).
FindOutputCycleFrom(cur, forward) ==
    IF Len(outputs) <= 1 THEN NoOutput
    ELSE LET n == Len(outputs)
             current_idx == CurrentIdxFrom(cur) - 1
             next_idx == IF forward THEN (current_idx + 1) % n
                         ELSE (current_idx + n - 1) % n
         IN outputs[next_idx + 1]

FindOutputCycle(forward) == FindOutputCycleFrom(current_output, forward)

\* A faulty variant of get_output_name: the name is never found.
GetOutputNameOfNone(cur) == <<>>

\* get_output_name: <<>> when the output is unset, unknown or unnamed.
GetOutputNameOf(cur) ==
    IF cur = NoOutput \/ ~Known(cur) THEN <<>> ELSE info[cur].name

\* ------------------------------------------------------------------ anchor

\* The words an anchor string of the configuration file is made of.
ToLowercase(w) == CASE w = "Top" -> "top" [] w = "RIGHT" -> "right" [] OTHER -> w

\* The anchor parser of run() and of reload-config: unknown words are skipped.
ParseAnchor(words) == {ToLowercase(words[i]) : i \in 1..Len(words)} \cap Edges

\* format_anchor: the edges present, in the order top, bottom, left, right.
FormatAnchor(a) ==
    (IF "top" \in a THEN <<"top">> ELSE <<>>) \o
    (IF "bottom" \in a THEN <<"bottom">> ELSE <<>>) \o
    (IF "left" \in a THEN <<"left">> ELSE <<>>) \o
    (IF "right" \in a THEN <<"right">> ELSE <<>>)

\* -------------------------------------------------------------------- size

\* FontState::measure_text: the sum of the glyph advances, in 1/1000 pixel.  The
\* advance of a glyph of the (monospace) default font is taken as 0.6 of the size.
MeasureText(nchars, size_milli) == (nchars * size_milli * 6) \div 10

\* widest_time_string with show_seconds and the 12 hour format: "00:00:00 PM".
WidestTimeChars == 11
\* A date of the default date format, such as "Sunday, 01 November 2026".
DateChars == 24

\* compute_digital_size with the battery indicator off and no sub-clocks.
ComputeDigitalSize(cfg, cmp) ==
    LET time_size == IF cmp THEN cfg.font_size * 700 ELSE cfg.font_size * 1000
        pad_x == (time_size * 4) \div 10
        pad_y == time_size \div 4
        time_w == MeasureText(WidestTimeChars, time_size)
        date_size == IF ~cmp THEN time_size \div 4 ELSE 0
        date_w == IF date_size > 0 THEN MeasureText(DateChars, date_size) ELSE 0
        date_gap == IF date_size > 0 THEN (time_size * 15) \div 100 ELSE 0
    IN <<CeilMilli(Max(time_w, date_w) + pad_x * 2),
         CeilMilli(pad_y + time_size + date_gap + date_size + pad_y)>>

\* compute_analogue_size with no sub-clocks.
ComputeAnalogueSize(cfg, cmp) ==
    LET effective == IF cmp THEN cfg.diameter * 750 ELSE cfg.diameter * 1000
        pad == AnaloguePad * 1000
    IN <<CeilMilli(effective + pad * 2), CeilMilli(effective + pad * 2)>>

\* renderer::compute_size
ComputeSize(cfg, cmp) ==
    IF cfg.face = "digital" THEN ComputeDigitalSize(cfg, cmp)
    ELSE ComputeAnalogueSize(cfg, cmp)

\* ------------------------------------------------------------------- clamp

\* i32::clamp(0, max)
Clamp(v, lo, hi) == IF v < lo THEN lo ELSE IF v > hi THEN hi ELSE v

\* (out as u32).saturating_sub(size) as i32
SaturatingSub(a, b) == IF a >= b THEN a - b ELSE 0

\* A faulty variant of the geometry lookup: a missing geometry counts as 1920 x 1080.
CurrentLogicalSizeAssumed ==
    IF current_output = NoOutput \/ ~Known(current_output)
       \/ info[current_output].logical_size = <<>>
    THEN <<1920, 1080>>
    ELSE SizeOf(current_output)

\* The logical size clamp_margins reads: (0, 0) when the output is unset or unknown.
CurrentLogicalSize ==
    IF current_output = NoOutput \/ ~Known(current_output) THEN <<0, 0>>
    ELSE SizeOf(current_output)

\* A faulty variant of clamp_margins: the window size is left out of the bound.
ClampMarginsNoSize(cfg, anc, w, h) ==
    LET out_w == CurrentLogicalSize[1]
        out_h == CurrentLogicalSize[2]
    IN IF out_w = 0 \/ out_h = 0 THEN cfg
       ELSE [cfg EXCEPT
               !.margin_left = IF "left" \in anc /\ "right" \notin anc
                               THEN Clamp(@, 0, out_w) ELSE @,
               !.margin_right = IF "right" \in anc /\ "left" \notin anc
                                THEN Clamp(@, 0, out_w) ELSE @,
               !.margin_top = IF "top" \in anc /\ "bottom" \notin anc
                              THEN Clamp(@, 0, out_h) ELSE @,
               !.margin_bottom = IF "bottom" \in anc /\ "top" \notin anc
                                 THEN Clamp(@, 0, out_h) ELSE @]

\* A faulty variant of clamp_margins: on an axis with both edges anchored both
\* margins are clamped.
ClampMarginsBothEdges(cfg, anc, w, h) ==
    LET out_w == CurrentLogicalSize[1]
        out_h == CurrentLogicalSize[2]
    IN IF out_w = 0 \/ out_h = 0 THEN cfg
       ELSE [cfg EXCEPT
               !.margin_left = IF "left" \in anc
                               THEN Clamp(@, 0, SaturatingSub(out_w, w)) ELSE @,
               !.margin_right = IF "right" \in anc
                                THEN Clamp(@, 0, SaturatingSub(out_w, w)) ELSE @,
               !.margin_top = IF "top" \in anc
                              THEN Clamp(@, 0, SaturatingSub(out_h, h)) ELSE @,
               !.margin_bottom = IF "bottom" \in anc
                                 THEN Clamp(@, 0, SaturatingSub(out_h, h)) ELSE @]

\* clamp_margins on config cfg with anchor anc and window size w x h.
ClampMargins(cfg, anc, w, h) ==
    LET out_w == CurrentLogicalSize[1]
        out_h == CurrentLogicalSize[2]
        has_left == "left" \in anc
        has_right == "right" \in anc
        has_top == "top" \in anc
        has_bottom == "bottom" \in anc
    IN IF out_w = 0 \/ out_h = 0 THEN cfg
       ELSE [cfg EXCEPT
               !.margin_left = IF has_left /\ ~has_right
                               THEN Clamp(@, 0, SaturatingSub(out_w, w)) ELSE @,
               !.margin_right = IF ~(has_left /\ ~has_right) /\ has_right /\ ~has_left
                                THEN Clamp(@, 0, SaturatingSub(out_w, w)) ELSE @,
               !.margin_top = IF has_top /\ ~has_bottom
                              THEN Clamp(@, 0, SaturatingSub(out_h, h)) ELSE @,
               !.margin_bottom = IF ~(has_top /\ ~has_bottom) /\ has_bottom /\ ~has_top
                                 THEN Clamp(@, 0, SaturatingSub(out_h, h)) ELSE @]

\* update_size on config cfg, compact flag cmp and anchor anc: the new config and size.
UpdateSize(cfg, cmp, anc) ==
    LET new == ComputeSize(cfg, cmp)
    IN IF new[1] # width \/ new[2] # height
       THEN [config |-> ClampMargins(cfg, anc, new[1], new[2]),
             width |-> new[1], height |-> new[2]]
       ELSE [config |-> cfg, width |-> width, height |-> height]

\* ------------------------------------------------------ configuration file

Margins(cfg) == <<cfg.margin_top, cfg.margin_right, cfg.margin_bottom, cfg.margin_left>>

\* A faulty variant of save_margins_to_config: it writes a document of its own when
\* the file cannot be read.
SaveMarginsToConfigUnread(f, m) ==
    [f EXCEPT !.doc.margin_top = m[1], !.doc.margin_right = m[2],
              !.doc.margin_bottom = m[3], !.doc.margin_left = m[4]]

\* save_margins_to_config: without effect when the file cannot be read or parsed, or
\* cannot be written.
SaveMarginsToConfig(f, m) ==
    IF f.status # "ok" THEN f
    ELSE [f EXCEPT !.doc.margin_top = m[1], !.doc.margin_right = m[2],
                   !.doc.margin_bottom = m[3], !.doc.margin_left = m[4]]

\* save_output_to_config: without effect when the file cannot be read or parsed, or
\* cannot be written.
SaveOutputToConfig(f, name) ==
    IF f.status # "ok" THEN f ELSE [f EXCEPT !.doc.output = <<name>>]

\* WindowConfig::default and ClockSettings::default, the fields the controller uses.
DefaultConfig ==
    [face |-> "digital", font_size |-> DefaultFontSize, diameter |-> DefaultDiameter,
     anchor |-> <<"top", "right">>,
     margin_top |-> DefaultMargin, margin_right |-> DefaultMargin,
     margin_bottom |-> 0, margin_left |-> 0,
     output |-> <<>>, compact |-> FALSE]

\* ----------------------------------------------------- recreate_surface

\* What a handler did besides changing the controller's fields.
NoEffects == [saved |-> {}, recreations |-> 0]

\* ------------------------------------------------------------ pointer drag

\* A faulty variant of the press guard: the lock is not looked at.
PressStartsUnlocked(button) == button = BTN_LEFT

\* Press: a drag session starts on the left button when the clock is not locked.
PressStarts(button) == button = BTN_LEFT /\ ~locked

\* A faulty variant of the motion rule: it adds to the current margins, not to the
\* snapshot.
MotionMarginsAccumulate(cfg, pos) ==
    LET dx == AsI32(pos[1] - drag_start[1])
        dy == AsI32(pos[2] - drag_start[2])
    IN [cfg EXCEPT
          !.margin_left = IF "left" \in anchor /\ "right" \notin anchor
                          THEN Max(@ + dx, 0) ELSE @,
          !.margin_right = IF "right" \in anchor /\ "left" \notin anchor
                           THEN Max(@ - dx, 0) ELSE @,
          !.margin_top = IF "top" \in anchor /\ "bottom" \notin anchor
                         THEN Max(@ + dy, 0) ELSE @,
          !.margin_bottom = IF "bottom" \in anchor /\ "top" \notin anchor
                            THEN Max(@ - dy, 0) ELSE @]

\* Motion while dragging: the margins of the single anchored edges follow the pointer.
MotionMargins(cfg, pos) ==
    LET dx == AsI32(pos[1] - drag_start[1])
        dy == AsI32(pos[2] - drag_start[2])
        has_left == "left" \in anchor
        has_right == "right" \in anchor
        has_top == "top" \in anchor
        has_bottom == "bottom" \in anchor
    IN [cfg EXCEPT
          !.margin_left = IF has_left /\ ~has_right
                          THEN Max(drag_margins[4] + dx, 0) ELSE @,
          !.margin_right = IF ~(has_left /\ ~has_right) /\ has_right /\ ~has_left
                           THEN Max(drag_margins[2] - dx, 0) ELSE @,
          !.margin_top = IF has_top /\ ~has_bottom
                         THEN Max(drag_margins[1] + dy, 0) ELSE @,
          !.margin_bottom = IF ~(has_top /\ ~has_bottom) /\ has_bottom /\ ~has_top
                            THEN Max(drag_margins[3] - dy, 0) ELSE @]

\* A faulty variant of the direction choice: the fallback does not look at the margin.
LeaveDirectionAnyMargin ==
    LET has_left == "left" \in anchor
        has_right == "right" \in anchor
        has_top == "top" \in anchor
        has_bottom == "bottom" \in anchor
    IN CASE has_left /\ ~has_right -> "Left"
         [] has_right /\ ~has_left -> "Right"
         [] has_top /\ ~has_bottom -> "Up"
         [] has_bottom /\ ~has_top -> "Down"
         [] OTHER -> NoDirection

\* A faulty variant of the direction choice: one pass over the edges, a margin of 0
\* qualifies whatever it was at the press.
LeaveDirectionOnePass ==
    LET has_left == "left" \in anchor
        has_right == "right" \in anchor
        has_top == "top" \in anchor
        has_bottom == "bottom" \in anchor
    IN IF has_left /\ ~has_right /\ config.margin_left = 0 THEN "Left"
       ELSE IF has_right /\ ~has_left /\ config.margin_right = 0 THEN "Right"
       ELSE IF has_top /\ ~has_bottom /\ config.margin_top = 0 THEN "Up"
       ELSE IF has_bottom /\ ~has_top /\ config.margin_bottom = 0 THEN "Down"
       ELSE NoDirection

\* Leave while dragging: the direction in which the clock was dragged to the edge.
LeaveDirection ==
    LET has_left == "left" \in anchor
        has_right == "right" \in anchor
        has_top == "top" \in anchor
        has_bottom == "bottom" \in anchor
    IN IF has_left /\ ~has_right /\ config.margin_left = 0 /\ drag_margins[4] > 0 THEN "Left"
       ELSE IF has_right /\ ~has_left /\ config.margin_right = 0 /\ drag_margins[2] > 0 THEN "Right"
       ELSE IF has_top /\ ~has_bottom /\ config.margin_top = 0 /\ drag_margins[1] > 0 THEN "Up"
       ELSE IF has_bottom /\ ~has_top /\ config.margin_bottom = 0 /\ drag_margins[3] > 0 THEN "Down"
       ELSE IF has_left /\ ~has_right /\ config.margin_left = 0 THEN "Left"
       ELSE IF has_right /\ ~has_left /\ config.margin_right = 0 THEN "Right"
       ELSE IF has_top /\ ~has_bottom /\ config.margin_top = 0 THEN "Up"
       ELSE IF has_bottom /\ ~has_top /\ config.margin_bottom = 0 THEN "Down"
       ELSE NoDirection

\* A faulty variant of the anchor flip: the edge that was crossed stays anchored.
MigrateAnchorKeepsEdge(anc, dir) ==
    CASE dir = "Left" -> anc \cup {"right"}
      [] dir = "Right" -> anc \cup {"left"}
      [] dir = "Up" -> anc \cup {"bottom"}
      [] dir = "Down" -> anc \cup {"top"}

\* Migration in direction dir: the anchor flips to the edge the clock arrives at.
MigrateAnchor(anc, dir) ==
    CASE dir = "Left" -> (anc \ {"left"}) \cup {"right"}
      [] dir = "Right" -> (anc \ {"right"}) \cup {"left"}
      [] dir = "Up" -> (anc \ {"top"}) \cup {"bottom"}
      [] dir = "Down" -> (anc \ {"bottom"}) \cup {"top"}

\* Migration in direction dir: both margins of the crossed axis become 0.
MigrateConfig(cfg, dir) ==
    LET flipped == [cfg EXCEPT !.anchor = FormatAnchor(MigrateAnchor(anchor, dir))]
    IN IF dir \in {"Left", "Right"}
       THEN [flipped EXCEPT !.margin_left = 0, !.margin_right = 0]
       ELSE [flipped EXCEPT !.margin_top = 0, !.margin_bottom = 0]

\* A faulty variant of the save condition of a release: it always saves.
ReleaseSavesAlways(current) == TRUE

\* Release saves the margins when they differ from the snapshot taken at the press.
ReleaseSaves(current) == current # drag_margins

\* A faulty variant of the save condition of a leave: it always saves.
LeaveSavesAlways(moved, current) == TRUE

\* Leave saves the margins when the clock migrated or the margins changed.
LeaveSaves(moved, current) == moved \/ current # drag_margins

\* ---------------------------------------------------------------- handlers
\* Each handler sets the controller's fields and fx; the specifications below add
\* the bookkeeping of their own.

topology == <<outputs, info>>
clock == <<compact, width, height>>
drag == <<dragging, drag_start, drag_margins>>

\* PointerEventKind::Press
PointerPress(button, pos) ==
    /\ IF PressStarts(button)
       THEN /\ dragging' = TRUE
            /\ drag_start' = pos
            /\ drag_margins' = Margins(config)
       ELSE UNCHANGED drag
    /\ fx' = NoEffects
    /\ UNCHANGED <<topology, current_output, anchor, config, clock, configured,
                   needs_redraw, locked, file>>

\* PointerEventKind::Motion
PointerMotion(pos) ==
    /\ config' = IF dragging THEN MotionMargins(config, pos) ELSE config
    /\ \A i \in 1..4 : Margins(config')[i] <= Max(MaxMargin, Margins(config)[i])
    /\ fx' = NoEffects
    /\ UNCHANGED <<topology, current_output, anchor, clock, configured, needs_redraw,
                   locked, drag, file>>

\* PointerEventKind::Release
PointerRelease(button) ==
    /\ IF button = BTN_LEFT /\ dragging
       THEN /\ dragging' = FALSE
            /\ IF ReleaseSaves(Margins(config))
               THEN /\ file' = SaveMarginsToConfig(file, Margins(config))
                    /\ fx' = [saved |-> {"margins"}, recreations |-> 0]
               ELSE /\ UNCHANGED file
                    /\ fx' = NoEffects
       ELSE /\ UNCHANGED <<dragging, file>>
            /\ fx' = NoEffects
    /\ UNCHANGED <<topology, current_output, anchor, config, clock, configured,
                   needs_redraw, locked, drag_start, drag_margins>>

\* PointerEventKind::Leave
PointerLeave ==
    IF dragging
    THEN LET direction == LeaveDirection
             target == IF direction = NoDirection THEN NoOutput
                       ELSE FindAdjacentOutput(direction)
             moved == target # NoOutput
             migrated == IF moved THEN MigrateConfig(config, direction) ELSE config
             current == Margins(migrated)
             name == GetOutputNameOf(target)
             saves == LeaveSaves(moved, current)
             file1 == IF saves THEN SaveMarginsToConfig(file, current) ELSE file
         IN /\ dragging' = FALSE
            /\ anchor' = IF moved THEN MigrateAnchor(anchor, direction) ELSE anchor
            \* recreate_surface(target)
            /\ current_output' = IF moved THEN target ELSE current_output
            /\ configured' = IF moved THEN FALSE ELSE configured
            /\ needs_redraw' = IF moved THEN TRUE ELSE needs_redraw
            /\ config' = IF moved /\ name # <<>>
                         THEN [migrated EXCEPT !.output = name] ELSE migrated
            /\ file' = IF moved /\ name # <<>>
                       THEN SaveOutputToConfig(file1, name[1]) ELSE file1
            /\ fx' = [saved |-> (IF saves THEN {"margins"} ELSE {}) \cup
                                (IF moved /\ name # <<>> THEN {"output"} ELSE {}),
                      recreations |-> IF moved THEN 1 ELSE 0]
            /\ UNCHANGED <<topology, clock, locked, drag_start, drag_margins>>
    ELSE /\ fx' = NoEffects
         /\ UNCHANGED pvars

\* The tail shared by the size-changing commands: update_size on the new settings.
ApplySize(cfg, cmp, anc) ==
    LET u == UpdateSize(cfg, cmp, anc)
    IN /\ config' = u.config
       /\ compact' = cmp
       /\ width' = u.width
       /\ height' = u.height
       /\ needs_redraw' = TRUE

\* A faulty variant of set-face: an unknown name falls back to the digital face.
SetFaceFallsBack(face) ==
    /\ ApplySize([config EXCEPT !.face = IF face = "analogue" THEN face ELSE "digital"],
                 compact, anchor)
    /\ fx' = NoEffects
    /\ UNCHANGED <<topology, current_output, anchor, configured, locked, drag, file>>

\* IpcCommand::SetFace
SetFace(face) ==
    /\ IF face \in {"digital", "analogue"}
       THEN ApplySize([config EXCEPT !.face = face], compact, anchor)
       ELSE UNCHANGED <<config, clock, needs_redraw>>
    /\ fx' = NoEffects
    /\ UNCHANGED <<topology, current_output, anchor, configured, locked, drag, file>>

\* FaceMode::toggle
ToggleFaceMode(face) == IF face = "digital" THEN "analogue" ELSE "digital"

\* IpcCommand::ToggleFace
ToggleFace ==
    /\ ApplySize([config EXCEPT !.face = ToggleFaceMode(@)], compact, anchor)
    /\ fx' = NoEffects
    /\ UNCHANGED <<topology, current_output, anchor, configured, locked, drag, file>>

\* IpcCommand::SetCompact
SetCompact(c) ==
    /\ ApplySize(config, c, anchor)
    /\ fx' = NoEffects
    /\ UNCHANGED <<topology, current_output, anchor, configured, locked, drag, file>>

\* IpcCommand::ToggleCompact
ToggleCompact ==
    /\ ApplySize(config, ~compact, anchor)
    /\ fx' = NoEffects
    /\ UNCHANGED <<topology, current_output, anchor, configured, locked, drag, file>>

\* A faulty variant of set-font-size: the size is taken as it comes.
SetFontSizeUnfloored(size) ==
    /\ ApplySize([config EXCEPT !.font_size = size], compact, anchor)
    /\ fx' = NoEffects
    /\ UNCHANGED <<topology, current_output, anchor, configured, locked, drag, file>>

\* IpcCommand::SetFontSize
SetFontSize(size) ==
    /\ ApplySize([config EXCEPT !.font_size = Max(size, MinFontSize)], compact, anchor)
    /\ fx' = NoEffects
    /\ UNCHANGED <<topology, current_output, anchor, configured, locked, drag, file>>

\* IpcCommand::SetDiameter
SetDiameter(diameter) ==
    /\ ApplySize([config EXCEPT !.diameter = Max(diameter, MinDiameter)], compact, anchor)
    /\ fx' = NoEffects
    /\ UNCHANGED <<topology, current_output, anchor, configured, locked, drag, file>>

\* The words of the arithmetic: u32 is 0..U32Max, i32 is I32Min..I32Max.
WordModulus == 2 ^ WordBits
U32Max == WordModulus - 1
I32Max == WordModulus \div 2 - 1
I32Min == -(WordModulus \div 2)

\* The two's complement word of an integer: `as i32`, and i32 addition that wraps.
WrapI32(n) == ((n - I32Min) % WordModulus) + I32Min

\* `diameter as i32 + delta` leaves i32: the addition panics in a build with overflow
\* checks and wraps in a build without.
ScaleOverflows(diameter, delta) ==
    LET sum == WrapI32(diameter) + delta
    IN sum > I32Max \/ sum < I32Min

\* A faulty variant of the diameter of scale-by: the sum is floored at 0, not at 40.
ScaledDiameterUnfloored(diameter, delta) ==
    Max(WrapI32(WrapI32(diameter) + delta), 0)

\* (self.config.clock.diameter as i32 + delta).max(40) as u32, the sum wrapping.
ScaledDiameter(diameter, delta) ==
    Max(WrapI32(WrapI32(diameter) + delta), MinDiameter)

\* IpcCommand::ScaleBy to its end.
ScaleStep(delta) ==
    /\ IF config.face = "digital"
       THEN ApplySize([config EXCEPT !.font_size = Max(@ + delta, MinFontSize)],
                      compact, anchor)
       ELSE ApplySize([config EXCEPT !.diameter = ScaledDiameter(@, delta)],
                      compact, anchor)
    /\ fx' = NoEffects
    /\ UNCHANGED <<topology, current_output, anchor, configured, locked, drag, file>>

\* IpcCommand::ScaleBy within the sizes of the bounded specifications, where no cast
\* and no sum wraps.
ScaleBy(delta) ==
    /\ IF config.face = "digital"
       THEN ApplySize([config EXCEPT !.font_size = Max(@ + delta, MinFontSize)],
                      compact, anchor)
       ELSE ApplySize([config EXCEPT !.diameter = ScaledDiameter(@, delta)],
                      compact, anchor)
    /\ config'.font_size <= MaxFontSize
    /\ config'.diameter <= MaxDiameter
    /\ fx' = NoEffects
    /\ UNCHANGED <<topology, current_output, anchor, configured, locked, drag, file>>

\* A faulty variant of set-locked: locking ends the drag in progress.
SetLockedEndsDrag(l) ==
    /\ locked' = l
    /\ dragging' = (dragging /\ ~l)
    /\ fx' = NoEffects
    /\ UNCHANGED <<topology, current_output, anchor, config, clock, configured,
                   needs_redraw, drag_start, drag_margins, file>>

\* IpcCommand::SetLocked
SetLocked(l) ==
    /\ locked' = l
    /\ fx' = NoEffects
    /\ UNCHANGED <<topology, current_output, anchor, config, clock, configured,
                   needs_redraw, drag, file>>

\* IpcCommand::ToggleLocked
ToggleLocked ==
    /\ locked' = ~locked
    /\ fx' = NoEffects
    /\ UNCHANGED <<topology, current_output, anchor, config, clock, configured,
                   needs_redraw, drag, file>>

\* The target of move-to-output.
MoveTarget(name) ==
    CASE name = "next" -> FindOutputCycle(TRUE)
      [] name = "prev" -> FindOutputCycle(FALSE)
      [] OTHER -> FindOutputByName(name)

\* IpcCommand::MoveToOutput
MoveToOutput(name) ==
    LET target == MoveTarget(name)
        got == GetOutputNameOf(target)
        output_name == IF got = <<>> THEN name ELSE got[1]
    IN IF target # NoOutput
       THEN \* recreate_surface(target)
            /\ current_output' = target
            /\ configured' = FALSE
            /\ needs_redraw' = TRUE
            /\ config' = [config EXCEPT !.output = <<output_name>>]
            /\ file' = SaveOutputToConfig(file, output_name)
            /\ fx' = [saved |-> {"output"}, recreations |-> 1]
            /\ UNCHANGED <<topology, anchor, clock, locked, drag>>
       ELSE /\ fx' = NoEffects
            /\ UNCHANGED pvars

\* A faulty variant of load_config: a file that cannot be parsed loads as the defaults.
LoadConfigLenient(f) ==
    IF f.status = "ok"
    THEN [ok |-> TRUE, config |-> f.doc, file |-> f, error |-> <<>>]
    ELSE [ok |-> TRUE, config |-> DefaultConfig,
          file |-> [status |-> "ok", doc |-> DefaultConfig], error |-> <<>>]

\* load_config on the file f: a missing file is created with the default content and
\* loads as the defaults; a file that cannot be read or parsed is an error.
LoadConfig(f) ==
    CASE f.status = "missing" ->
           [ok |-> TRUE, config |-> DefaultConfig,
            file |-> [status |-> "ok", doc |-> DefaultConfig], error |-> <<>>]
      [] f.status \in {"ok", "readonly"} ->
           [ok |-> TRUE, config |-> f.doc, file |-> f, error |-> <<>>]
      [] OTHER ->
           [ok |-> FALSE, config |-> f.doc, file |-> f,
            error |-> <<"Failed to parse config">>]

\* A faulty variant of the merge of reload-config: the face comes from the file.
ReloadedConfigFromFile(new_config) == new_config

\* reload-config: the loaded config with the runtime face carried over.
ReloadedConfig(new_config) == [new_config EXCEPT !.face = config.face]

\* A faulty variant of reload-config: a successful reload takes a new snapshot for the
\* drag in progress.
ReloadConfigRefreshesDrag ==
    LET loaded == LoadConfig(file)
    IN /\ IF loaded.ok
          THEN /\ anchor' = ParseAnchor(loaded.config.anchor)
               /\ ApplySize(ReloadedConfig(loaded.config), compact, anchor')
               /\ drag_margins' = Margins(config')
          ELSE UNCHANGED <<anchor, config, clock, needs_redraw, drag_margins>>
       /\ file' = loaded.file
       /\ fx' = NoEffects
       /\ UNCHANGED <<topology, current_output, configured, locked, dragging, drag_start>>

\* IpcCommand::ReloadConfig
ReloadConfig ==
    LET loaded == LoadConfig(file)
    IN /\ IF loaded.ok
          THEN /\ anchor' = ParseAnchor(loaded.config.anchor)
               /\ ApplySize(ReloadedConfig(loaded.config), compact, anchor')
          ELSE UNCHANGED <<anchor, config, clock, needs_redraw>>
       /\ file' = loaded.file
       /\ fx' = NoEffects
       /\ UNCHANGED <<topology, current_output, configured, locked, drag>>

\* IpcResponse::ok and IpcResponse::err; the message is the pieces of its format!.
OkResponse == [ok |-> TRUE, error |-> <<>>]
ErrResponse(msg) == [ok |-> FALSE, error |-> msg]

\* The response of set-face.
SetFaceResponse(face) ==
    IF face \in {"digital", "analogue"} THEN OkResponse
    ELSE ErrResponse(<<"Unknown face: ", face>>)

\* The response of move-to-output.
MoveToOutputResponse(name) ==
    IF MoveTarget(name) # NoOutput THEN OkResponse
    ELSE ErrResponse(<<"Output '", name, "' not found">>)

\* The response of reload-config.
ReloadConfigResponse ==
    IF LoadConfig(file).ok THEN OkResponse
    ELSE ErrResponse(<<"Config reload failed: ">> \o LoadConfig(file).error)

\* IpcResponse::state on the snapshot that GetState takes.
StateResponse ==
    [ok |-> TRUE, error |-> <<>>,
     state |-> [face |-> config.face, compact |-> compact, width |-> width,
                height |-> height, font_size |-> config.font_size,
                diameter |-> config.diameter, locked |-> locked,
                output |-> GetOutputNameOf(current_output)]]

\* A faulty variant of GetState: the query asks for a redraw.
GetStateRedraws ==
    /\ needs_redraw' = TRUE
    /\ fx' = NoEffects
    /\ UNCHANGED <<topology, current_output, anchor, config, clock, configured,
                   locked, drag, file>>

\* IpcCommand::GetState
GetState ==
    /\ fx' = NoEffects
    /\ UNCHANGED pvars

\* IpcCommand::Quit
Quit ==
    /\ should_quit' = TRUE
    /\ fx' = NoEffects
    /\ UNCHANGED pvars

\* LayerShellHandler::configure
Configure(new_w, new_h) ==
    /\ width' = IF new_w > 0 THEN new_w ELSE width
    /\ height' = IF new_h > 0 THEN new_h ELSE height
    /\ configured' = TRUE
    /\ needs_redraw' = TRUE
    /\ fx' = NoEffects
    /\ UNCHANGED <<topology, current_output, anchor, config, compact, locked, drag, file>>

\* CompositorHandler::surface_enter
SurfaceEnter(o) ==
    /\ current_output' = o
    /\ fx' = NoEffects
    /\ UNCHANGED <<topology, anchor, config, clock, configured, needs_redraw, locked,
                   drag, file>>

\* A faulty variant of surface_leave: the output is forgotten whichever output is left.
SurfaceLeaveAny(o) ==
    /\ current_output' = NoOutput
    /\ fx' = NoEffects
    /\ UNCHANGED <<topology, anchor, config, clock, configured, needs_redraw, locked,
                   drag, file>>

\* CompositorHandler::surface_leave
SurfaceLeave(o) ==
    /\ current_output' = IF current_output = o THEN NoOutput ELSE current_output
    /\ fx' = NoEffects
    /\ UNCHANGED <<topology, anchor, config, clock, configured, needs_redraw, locked,
                   drag, file>>

\* OutputHandler::output_destroyed: the toolkit drops the output from its list.
OutputDestroyed(o) ==
    /\ outputs' = SelectSeq(outputs, LAMBDA x : x # o)
    /\ fx' = NoEffects
    /\ UNCHANGED <<info, current_output, anchor, config, clock, configured, needs_redraw,
                   locked, drag, file>>

\* OutputHandler::new_output: the toolkit appends the output to its list.
NewOutput(o) ==
    /\ outputs' = Append(outputs, o)
    /\ fx' = NoEffects
    /\ UNCHANGED <<info, current_output, anchor, config, clock, configured, needs_redraw,
                   locked, drag, file>>

\* ------------------------------------------------- the controller: Spec

\* The outputs of the controller's world: DP-2 right of DP-1, HDMI-A-1 below it.
StaticInfo ==
    [o \in OutputIds |->
        CASE o = "A" -> [name |-> <<"DP-1">>, logical_position |-> <<0, 0>>,
                         logical_size |-> <<1920, 1080>>]
          [] o = "B" -> [name |-> <<"DP-2">>, logical_position |-> <<1920, 0>>,
                         logical_size |-> <<1920, 1080>>]
          [] o = "C" -> [name |-> <<"HDMI-A-1">>, logical_position |-> <<0, 1080>>,
                         logical_size |-> <<1920, 1080>>]]

\* Contents of the configuration file, at startup and after an edit by the user.
FileDocs ==
    { DefaultConfig,
      [DefaultConfig EXCEPT !.anchor = <<"bottom", "left">>, !.face = "analogue",
                            !.margin_top = 0, !.margin_right = 0,
                            !.margin_bottom = DefaultMargin, !.output = <<"DP-2">>],
      [DefaultConfig EXCEPT !.anchor = <<"Top", "left", "RIGHT">>,
                            !.margin_left = DefaultMargin],
      [DefaultConfig EXCEPT !.anchor = <<"bottom", "centre">>,
                            !.margin_bottom = DefaultMargin] }

\* The inputs of the handlers.
Buttons == {BTN_LEFT, BTN_LEFT + 1}
PressPosition == <<10 * Subpixel + 1, 10 * Subpixel + 1>>
MotionOffsets == {-(DragReach * Subpixel + 1), 0, DragReach * Subpixel + 1}
MotionPositions ==
    {<<PressPosition[1] + ox, PressPosition[2] + oy>> : ox \in MotionOffsets, oy \in MotionOffsets}
FaceNames == {"digital", "analogue", "binary"}
FontSizes == {MinFontSize - 5, MaxFontSize}
Diameters == {MinDiameter - 10, MaxDiameter}
ScaleDeltas == {-(MaxDiameter - MinDiameter), MaxDiameter - MinDiameter}
OutputNames == {"next", "prev", "DP-1", "DP-2", "HDMI-A-1", "DP-9"}
ConfigureSizes == {<<0, 0>>, <<400, 300>>}

\* The state when run() enters its event loop on the configuration file f.
Startup(f) ==
    /\ file = f
    /\ config = f.doc
    /\ compact = f.doc.compact
    /\ anchor = ParseAnchor(f.doc.anchor)
    /\ width = ComputeSize(f.doc, f.doc.compact)[1]
    /\ height = ComputeSize(f.doc, f.doc.compact)[2]
    /\ configured = FALSE
    /\ needs_redraw = TRUE
    /\ locked = FALSE
    /\ dragging = FALSE
    /\ drag_start = <<0, 0>>
    /\ drag_margins = <<0, 0, 0, 0>>

\* apply_pending_output_move: the output the surface is created on at startup.
PendingOutput(f) ==
    IF f.doc.output = <<>> THEN NoOutput ELSE FindOutputByName(f.doc.output[1])

Init ==
    /\ outputs = <<"A", "B", "C">>
    /\ info = StaticInfo
    /\ \E d \in FileDocs :
         /\ Startup([status |-> "ok", doc |-> d])
         /\ current_output = PendingOutput([status |-> "ok", doc |-> d])
    /\ fx = NoEffects
    /\ locked_press = FALSE
    /\ trail = <<>>
    /\ query = <<>>
    /\ LoopIdle

\* The lock bookkeeping of a press: set by a press the lock ignores while no drag is
\* in progress, cleared by a press that starts a drag.
LockedPressAfter(button) ==
    IF button = BTN_LEFT /\ locked /\ ~dragging THEN TRUE
    ELSE IF button = BTN_LEFT /\ ~locked THEN FALSE
    ELSE locked_press

Press == \E b \in Buttons :
    /\ PointerPress(b, PressPosition)
    /\ locked_press' = LockedPressAfter(b)
    /\ UNCHANGED <<trail, query, lvars>>

Motion == \E pos \in MotionPositions :
    PointerMotion(pos) /\ UNCHANGED <<locked_press, trail, query, lvars>>

Release == \E b \in Buttons :
    PointerRelease(b) /\ UNCHANGED <<locked_press, trail, query, lvars>>

Leave == PointerLeave /\ UNCHANGED <<locked_press, trail, query, lvars>>

\* The lock commands of the control socket.
LockCommand ==
    /\ \/ \E l \in BOOLEAN : SetLocked(l)
       \/ ToggleLocked
    /\ UNCHANGED <<locked_press, trail, query, lvars>>

\* The surface enters or leaves an output.
Surface ==
    /\ \/ \E o \in Range(outputs) : SurfaceEnter(o)
       \/ \E o \in Range(outputs) : SurfaceLeave(o)
    /\ UNCHANGED <<locked_press, trail, query, lvars>>

\* The compositor confirms the geometry, with or without a size of its own.
ConfigureEvent ==
    /\ \E sz \in ConfigureSizes : Configure(sz[1], sz[2])
    /\ UNCHANGED <<locked_press, trail, query, lvars>>

Next == Press \/ Motion \/ Release \/ Leave \/ LockCommand \/ Surface \/ ConfigureEvent

Spec == Init /\ [][Next]_vars

\* ------------------------------------------- adjacency queries: SpecAdjacent

\* The geometries an output of a drawn layout can have; <<>> is an output whose
\* logical position and size the compositor has not announced.
LayoutCoords == {0, GridUnit}
LayoutSizes == {GridUnit, 2 * GridUnit + 1}
Geometries ==
    {[logical_position |-> <<x, y>>, logical_size |-> <<w, h>>] :
        x \in LayoutCoords, y \in LayoutCoords, w \in LayoutSizes, h \in LayoutSizes}
UnknownGeometry == [logical_position |-> <<>>, logical_size |-> <<>>]

Layouts ==
    {[o \in OutputIds |->
        [name |-> StaticInfo[o].name,
         logical_position |-> g[o].logical_position,
         logical_size |-> g[o].logical_size]] :
     g \in [OutputIds -> Geometries] \cup
           {[h EXCEPT !["C"] = UnknownGeometry] : h \in [OutputIds -> Geometries]}}

InitAdjacent ==
    /\ outputs = <<"A", "B", "C">>
    /\ info \in Layouts
    /\ Startup([status |-> "ok", doc |-> DefaultConfig])
    /\ current_output \in OutputIds \cup {NoOutput}
    /\ fx = NoEffects
    /\ locked_press = FALSE
    /\ trail = <<>>
    /\ query = <<>>
    /\ LoopIdle

\* A call of find_adjacent_output, recorded with the output it started from.
AdjacentQuery == \E direction \in Directions :
    /\ query' = <<current_output, direction, FindAdjacentOutput(direction)>>
    /\ UNCHANGED <<pvars, fx, locked_press, trail, lvars>>

NextAdjacent == AdjacentQuery

SpecAdjacent == InitAdjacent /\ [][NextAdjacent]_vars

\* --------------------------------------------------- output cycling: SpecCycle

\* The sequences of distinct outputs of length 0 to 3, in any discovery order.
OutputLists ==
    {s \in UNION {[1..n -> OutputIds] : n \in 0..Cardinality(OutputIds)} :
        \A i, j \in 1..Len(s) : i # j => s[i] # s[j]}

InitCycle ==
    /\ outputs \in OutputLists
    /\ info = StaticInfo
    /\ \E start \in OutputIds \cup {NoOutput} :
         /\ Startup([status |-> "ok", doc |-> DefaultConfig])
         /\ current_output = start
    /\ fx = NoEffects
    /\ locked_press = FALSE
    /\ trail = <<>>
    /\ query = <<>>
    /\ LoopIdle

\* move-to-output next / prev, recorded: the output before, the target found, the
\* output after.
CycleMove == \E name \in {"next", "prev"} :
    /\ Len(trail) < MaxTrail
    /\ MoveToOutput(name)
    /\ trail' = Append(trail, [cmd |-> name, before |-> current_output,
                               target |-> MoveTarget(name), after |-> current_output'])
    /\ UNCHANGED <<locked_press, query, lvars>>

NextCycle == CycleMove

SpecCycle == InitCycle /\ [][NextCycle]_vars

\* ------------------------------------------- control commands: SpecCommands

\* The outputs of the command runs: HDMI-A-1 has not announced a name.
CommandInfo == [StaticInfo EXCEPT !["C"].name = <<>>]

\* One output alone, or all three.
CommandOutputLists == {<<"A">>, <<"A", "B", "C">>}

\* Contents of the configuration file of the command runs: the defaults; a file no
\* load validates, with sizes under the floors and a right margin that leaves
\* DefaultMargin pixels of DP-1; a clock at the bottom left.
CommandFileDocs ==
    { DefaultConfig,
      [DefaultConfig EXCEPT !.font_size = MinFontSize - 5, !.diameter = MinDiameter - 10,
                            !.margin_right = StaticInfo["A"].logical_size[1] - DefaultMargin],
      [DefaultConfig EXCEPT !.anchor = <<"bottom", "left">>, !.face = "analogue",
                            !.compact = TRUE, !.margin_top = 0, !.margin_right = 0,
                            !.margin_bottom = DefaultMargin] }

\* The states of the file at config_path: readable, absent, or not parseable.
CommandFiles ==
    {[status |-> "ok", doc |-> d] : d \in CommandFileDocs} \cup
    {[status |-> st, doc |-> DefaultConfig] : st \in {"missing", "invalid"}}

InitCommands ==
    /\ outputs \in CommandOutputLists
    /\ info = CommandInfo
    /\ \E d \in CommandFileDocs :
         /\ Startup([status |-> "ok", doc |-> d])
         /\ current_output = PendingOutput([status |-> "ok", doc |-> d])
    /\ fx = NoEffects
    /\ locked_press = FALSE
    /\ trail = <<>>
    /\ query = <<>>
    /\ LoopIdle

\* The request handled last and its response.
Request(cmd, arg, response) == [cmd |-> cmd, arg |-> arg, response |-> response]

\* The results of the successful reloads handled in a row, the last two at most.
ReloadTrail(ok) ==
    LET result == [anchor |-> anchor', margins |-> Margins(config')]
    IN IF ~ok THEN <<>>
       ELSE IF trail = <<>> THEN <<result>>
       ELSE <<trail[Len(trail)], result>>

FaceCommand ==
    /\ \/ \E face \in FaceNames :
            SetFace(face) /\ query' = Request("set-face", face, SetFaceResponse(face))
       \/ ToggleFace /\ query' = Request("toggle-face", "", OkResponse)
    /\ trail' = <<>>
    /\ UNCHANGED <<locked_press, lvars>>

MoveCommand == \E name \in OutputNames :
    /\ MoveToOutput(name)
    /\ query' = Request("move-to-output", name, MoveToOutputResponse(name))
    /\ trail' = <<>>
    /\ UNCHANGED <<locked_press, lvars>>

\* The user replaces, removes or breaks the configuration file.
EditFile ==
    /\ file' \in CommandFiles
    /\ file' # file
    /\ fx' = NoEffects
    /\ query' = Request("edit", "", OkResponse)
    /\ trail' = <<>>
    /\ UNCHANGED <<topology, current_output, anchor, config, clock, configured,
                   needs_redraw, locked, drag, locked_press, lvars>>

NextCommands == FaceCommand \/ MoveCommand \/ EditFile

SpecCommands == InitCommands /\ [][NextCommands]_vars

\* ------------------------------------------------ reload-config: SpecReload

\* The runs of reload-config start on the default output or on DP-1.
InitReload ==
    /\ outputs = <<"A", "B", "C">>
    /\ info = CommandInfo
    /\ \E d \in CommandFileDocs :
         Startup([status |-> "ok", doc |-> d])
    /\ current_output \in {NoOutput, "A"}
    /\ fx = NoEffects
    /\ locked_press = FALSE
    /\ trail = <<>>
    /\ query = <<>>
    /\ LoopIdle

\* The commands that override face, compact flag and lock at run time.
OverrideCommand ==
    /\ \/ \E face \in {"digital", "analogue"} :
            SetFace(face) /\ query' = Request("set-face", face, SetFaceResponse(face))
       \/ ToggleFace /\ query' = Request("toggle-face", "", OkResponse)
       \/ \E c \in BOOLEAN :
            SetCompact(c) /\ query' = Request("set-compact", c, OkResponse)
       \/ ToggleCompact /\ query' = Request("toggle-compact", "", OkResponse)
       \/ \E l \in BOOLEAN :
            SetLocked(l) /\ query' = Request("set-locked", l, OkResponse)
       \/ ToggleLocked /\ query' = Request("toggle-locked", "", OkResponse)
    /\ trail' = <<>>
    /\ UNCHANGED <<locked_press, lvars>>

ReloadCommand ==
    /\ ReloadConfig
    /\ query' = Request("reload-config", "", ReloadConfigResponse)
    /\ trail' = ReloadTrail(ReloadConfigResponse.ok)
    /\ UNCHANGED <<locked_press, lvars>>

NextReload == OverrideCommand \/ ReloadCommand \/ EditFile

SpecReload == InitReload /\ [][NextReload]_vars

\* ------------------------------------------------- size commands: SpecSizes

SizeCommand ==
    /\ \/ \E size \in FontSizes :
            SetFontSize(size) /\ query' = Request("set-font-size", size, OkResponse)
       \/ \E diameter \in Diameters :
            SetDiameter(diameter) /\ query' = Request("set-diameter", diameter, OkResponse)
       \/ \E delta \in ScaleDeltas :
            ScaleBy(delta) /\ query' = Request("scale-by", delta, OkResponse)
    /\ trail' = <<>>
    /\ UNCHANGED <<locked_press, lvars>>

\* The face decides which size scale-by changes.
FaceToggle ==
    /\ ToggleFace
    /\ query' = Request("toggle-face", "", OkResponse)
    /\ trail' = <<>>
    /\ UNCHANGED <<locked_press, lvars>>

NextSizes == SizeCommand \/ FaceToggle

SpecSizes == InitReload /\ [][NextSizes]_vars

\* ---------------------------------------------------------------------------
\* Size commands on all kinds of anchors, margins and output geometry: SpecClamp
\* ---------------------------------------------------------------------------

ClampAnchors == {<<"top", "right">>, <<"bottom", "left">>, <<"top", "left", "right">>,
                 <<"left">>}
ClampMarginValues == {-DefaultMargin, DefaultMargin, MaxMargin}
ClampDocs ==
    {[DefaultConfig EXCEPT !.anchor = a, !.margin_top = m, !.margin_right = m,
                           !.margin_bottom = m, !.margin_left = m] :
        a \in ClampAnchors, m \in ClampMarginValues}

\* Output A is large or narrower than the clock; the compositor has sent no logical
\* size for B, or one with a zero dimension.
ClampInfos ==
    {[StaticInfo EXCEPT !["A"].logical_size = a, !["B"].logical_size = b] :
        a \in {<<1920, 1080>>, <<GridUnit, 1080>>},
        b \in {<<>>, <<0, 1080>>, <<1920, 0>>}}

\* The clock is on no output, on A, on B, or on C which has been unplugged.
InitClamp ==
    /\ outputs = <<"A", "B">>
    /\ info \in ClampInfos
    /\ \E d \in ClampDocs :
         Startup([status |-> "ok", doc |-> d])
    /\ current_output \in {NoOutput, "A", "B", "C"}
    /\ fx = NoEffects
    /\ locked_press = FALSE
    /\ trail = <<>>
    /\ query = <<>>
    /\ LoopIdle

SpecClamp == InitClamp /\ [][NextSizes]_vars

\* ---------------------------------------------------------------------------
\* Drags that end with the pointer leaving, with and without a neighbour: SpecStay
\* ---------------------------------------------------------------------------

\* A and B side by side; the clock is on no output, on A, on B, or on C which is not
\* in the list of outputs.
InitStay ==
    /\ outputs = <<"A", "B">>
    /\ info = StaticInfo
    /\ \E d \in FileDocs :
         Startup([status |-> "ok", doc |-> d])
    /\ current_output \in {NoOutput, "A", "B", "C"}
    /\ fx = NoEffects
    /\ locked_press = FALSE
    /\ trail = <<>>
    /\ query = <<>>
    /\ LoopIdle

NextStay == Press \/ Motion \/ Leave

SpecStay == InitStay /\ [][NextStay]_vars

\* ---------------------------------------------------------------------------
\* scale-by over the whole range of its words: SpecScale
\* ---------------------------------------------------------------------------

ScaleStride == MaxDiameter - MinDiameter
WideDiameters == {MinDiameter, MaxDiameter, I32Max, I32Max + 1, U32Max}
WideDeltas == {I32Min, -ScaleStride, 0, ScaleStride, I32Max}
ScaleDocs ==
    {[DefaultConfig EXCEPT !.face = f, !.diameter = d, !.font_size = s] :
        f \in {"digital", "analogue"}, d \in WideDiameters,
        s \in {MinFontSize, MaxFontSize}}

InitScale ==
    /\ outputs = <<"A", "B", "C">>
    /\ info = CommandInfo
    /\ \E d \in ScaleDocs :
         Startup([status |-> "ok", doc |-> d])
    /\ current_output = "A"
    /\ fx = NoEffects
    /\ locked_press = FALSE
    /\ trail = <<>>
    /\ query = <<>>
    /\ LoopIdle

\* scale-by runs to its end and is answered; the sum wraps where it leaves i32 (a build
\* without overflow checks).
ScaleCommand(delta) ==
    /\ phase = "poll"
    /\ config.face = "digital" => config.font_size + delta <= MaxFontSize + ScaleStride
    /\ Len(trail) < MaxScales
    /\ ScaleStep(delta)
    /\ query' = Request("scale-by", delta, OkResponse)
    /\ trail' = Append(trail, delta)
    /\ UNCHANGED <<locked_press, lvars>>

\* scale-by panics at the sum (a build with overflow checks): the daemon is gone and
\* nothing is answered.
ScalePanic(delta) ==
    /\ phase = "poll"
    /\ config.face = "analogue"
    /\ ScaleOverflows(config.diameter, delta)
    /\ phase' = "panicked"
    /\ UNCHANGED <<pvars, gvars, backlog, conn, served, connected, surface, svars>>

ScaleFace ==
    /\ phase = "poll"
    /\ ToggleFace
    /\ query' = Request("toggle-face", "", OkResponse)
    /\ UNCHANGED <<locked_press, trail, lvars>>

NextScale ==
    \/ \E delta \in WideDeltas : ScaleCommand(delta)
    \/ \E delta \in WideDeltas : ScalePanic(delta)
    \/ ScaleFace

SpecScale == InitScale /\ [][NextScale]_vars

\* ---------------------------------------------------------------------------
\* Drags followed by reload-config: SpecMigrate
\* ---------------------------------------------------------------------------

NextMigrate == Press \/ Release \/ Leave \/ ReloadCommand \/ LockCommand

SpecMigrate == Init /\ [][NextMigrate]_vars

\* ---------------------------------------------------------------------------
\* Persistence: SpecPersist
\*
\* Drags and move-to-output commands on a configuration file that the user or
\* the system makes unreadable, unparsable or read-only in between.
\* ---------------------------------------------------------------------------

FileStatuses == {"ok", "missing", "invalid", "readonly"}

\* The file becomes readable and writable, disappears, is damaged or write-protected.
SetFileStatus ==
    /\ \E st \in FileStatuses \ {file.status} :
         file' = [file EXCEPT !.status = st]
    /\ fx' = NoEffects
    /\ UNCHANGED <<topology, current_output, anchor, config, clock, configured,
                   needs_redraw, locked, drag, locked_press, trail, query, lvars>>

\* Motions along the horizontal axis.
PersistPositions == {pos \in MotionPositions : pos[2] = PressPosition[2]}

PersistMotion == \E pos \in PersistPositions :
    PointerMotion(pos) /\ UNCHANGED <<locked_press, trail, query, lvars>>

PersistMove == \E name \in {"next", "DP-9"} :
    /\ MoveToOutput(name)
    /\ query' = Request("move-to-output", name, MoveToOutputResponse(name))
    /\ UNCHANGED <<locked_press, trail, lvars>>

NextPersist ==
    \/ Press
    \/ PersistMotion
    \/ Release
    \/ Leave
    \/ PersistMove
    \/ SetFileStatus

SpecPersist == Init /\ [][NextPersist]_vars

\* ---------------------------------------------------------------------------
\* The event loop: SpecLoop
\*
\* One iteration of run()'s loop is: the bounded poll of the compositor socket,
\* dispatch_pending, poll_ipc, the 1 Hz tick, the redraw step.  Clients of the
\* control socket connect and write at any time.
\* ---------------------------------------------------------------------------

\* The commands clients send in this specification.
LoopCommands == {"toggle-locked", "next"}

\* The request lines that decode to a command of this model.
KnownCommands == LoopCommands \cup {"get-state", "quit"}

\* What a client has written on its connection: nothing yet, a request line, a
\* line that is no request, or nothing before it closed its end.
NothingSent == ""
ClosedUnsent == "eof"
Malformed == "bogus"
ClientLines == LoopCommands \cup {NothingSent, ClosedUnsent, Malformed}

LoopFileDocs ==
    { DefaultConfig,
      [DefaultConfig EXCEPT !.anchor = <<"bottom", "left">>,
                            !.margin_top = 0, !.margin_right = 0, !.margin_left = 0,
                            !.margin_bottom = DefaultMargin, !.output = <<"DP-2">>] }

InitLoop ==
    /\ outputs = <<"A", "B", "C">>
    /\ info = StaticInfo
    /\ \E d \in LoopFileDocs :
         /\ Startup([status |-> "ok", doc |-> d])
         /\ current_output = PendingOutput([status |-> "ok", doc |-> d])
    /\ fx = NoEffects
    /\ locked_press = FALSE
    /\ trail = <<>>
    /\ query = <<>>
    /\ LoopIdle

\* The layer surface after a handler has run: recreate_surface destroys it and
\* creates a new one, a configure event completes the handshake of the current one.
SurfaceAfter(configure_event) ==
    IF fx'.recreations = 1 THEN FreshSurface
    ELSE IF configure_event THEN [surface EXCEPT !.handshake = TRUE]
    ELSE surface

\* The loop goes on when no shutdown flag is set; poll(2) on the compositor socket
\* with a timeout of 100 ms returns in any case.
PollCompositor ==
    /\ phase = "poll"
    /\ ~(should_quit \/ ~running)
    /\ phase' = "dispatch"
    /\ UNCHANGED <<pvars, gvars, backlog, conn, served, connected, surface, svars>>

\* dispatch_pending: one queued compositor event reaches its handler.
DispatchEvent ==
    /\ phase = "dispatch"
    /\ \/ Configure(0, 0) /\ surface' = SurfaceAfter(TRUE)
       \/ PointerPress(BTN_LEFT, PressPosition) /\ surface' = SurfaceAfter(FALSE)
       \/ PointerLeave /\ surface' = SurfaceAfter(FALSE)
    /\ UNCHANGED <<locked_press, trail, query, phase, backlog, conn, served, connected, svars>>

\* dispatch_pending returns when the queue is empty.
DispatchDone ==
    /\ phase = "dispatch"
    /\ phase' = "accept"
    /\ UNCHANGED <<pvars, gvars, backlog, conn, served, connected, surface, svars>>

\* accept() hands out the connection at the tail of the queue (faulty variant).
NextConnectionNewest(q) == Len(q)

\* accept() hands out the connection that has waited longest.
NextConnection(q) == 1

\* poll_ipc: accept() returns a connection; handle_ipc_connection starts on it.
Accept ==
    /\ phase = "accept"
    /\ backlog # <<>>
    /\ LET k == NextConnection(backlog)
       IN /\ conn' = <<backlog[k]>>
          /\ backlog' = [i \in 1..(Len(backlog) - 1) |->
                            IF i < k THEN backlog[i] ELSE backlog[i + 1]]
    /\ phase' = "read"
    /\ UNCHANGED <<pvars, gvars, served, connected, surface, svars>>

\* A faulty variant of the end of the drain: a set quit flag ends it as well.
AcceptStopsOnQuit ==
    /\ phase = "accept"
    /\ backlog = <<>> \/ should_quit
    /\ phase' = "tick"
    /\ UNCHANGED <<pvars, gvars, backlog, conn, served, connected, surface, svars>>

\* poll_ipc: accept() on the non-blocking listener reports WouldBlock, the drain ends.
AcceptWouldBlock ==
    /\ phase = "accept"
    /\ backlog = <<>>
    /\ phase' = "tick"
    /\ UNCHANGED <<pvars, gvars, backlog, conn, served, connected, surface, svars>>

\* read_command: read_line on the accepted stream returns once a line or the end of
\* the stream is there; the stream is in blocking mode and has no read timeout.
ReadReturns(line) == line # NothingSent

\* handle_command on the command of a request line.
HandleLine(line) ==
    CASE line = "toggle-locked" -> ToggleLocked /\ UNCHANGED should_quit
      [] line = "next" -> MoveToOutput("next") /\ UNCHANGED should_quit
      [] line = "get-state" -> GetState /\ UNCHANGED should_quit
      [] line = "quit" -> Quit
      [] OTHER -> FALSE

LineResponse(line) ==
    CASE line = "next" -> MoveToOutputResponse("next")
      [] line = "get-state" -> StateResponse
      [] OTHER -> OkResponse

\* handle_ipc_connection: read_command yields a command and handle_command runs it.
HandleRequest ==
    /\ phase = "read"
    /\ ReadReturns(conn[1].line)
    /\ conn[1].line \in KnownCommands
    /\ HandleLine(conn[1].line)
    /\ query' = Request(conn[1].line, conn[1].id, LineResponse(conn[1].line))
    /\ served' = Append(served, [id |-> conn[1].id, event |-> "handled"])
    /\ surface' = SurfaceAfter(FALSE)
    /\ phase' = "respond"
    /\ UNCHANGED <<locked_press, trail, backlog, conn, connected, running, socket, instances, client>>

\* handle_ipc_connection: read_command fails, the connection is dropped unanswered.
ReadFails ==
    /\ phase = "read"
    /\ ReadReturns(conn[1].line)
    /\ conn[1].line \notin KnownCommands
    /\ served' = Append(served, [id |-> conn[1].id, event |-> "dropped"])
    /\ conn' = <<>>
    /\ phase' = "accept"
    /\ UNCHANGED <<pvars, gvars, backlog, connected, surface, svars>>

\* handle_ipc_connection: write_response, then back to accept().
Respond ==
    /\ phase = "respond"
    /\ served' = Append(served, [id |-> conn[1].id, event |-> "responded"])
    /\ conn' = <<>>
    /\ phase' = "accept"
    /\ UNCHANGED <<pvars, gvars, backlog, connected, surface, svars>>

\* The 1 Hz timer: the redraw flag is set when the second has changed.
Tick ==
    /\ phase = "tick"
    /\ \E second_changed \in BOOLEAN :
         needs_redraw' = (needs_redraw \/ second_changed)
    /\ phase' = "redraw"
    /\ UNCHANGED <<topology, current_output, anchor, config, compact, width, height,
                   configured, locked, drag, file, gvars,
                   backlog, conn, served, connected, surface, svars>>

\* The redraw step draws whenever the flag is set (faulty variant).
RedrawDueUnconfigured == needs_redraw

\* The condition of the redraw step.
RedrawDue == configured /\ needs_redraw

\* draw() renders and attaches a frame unless the surface has no area.
DrawsFrame == width # 0 /\ height # 0

\* The redraw step of the loop.
Redraw ==
    /\ phase = "redraw"
    /\ IF RedrawDue
       THEN /\ surface' = IF DrawsFrame
                         THEN [surface EXCEPT !.frames = Min(@ + 1, MaxFrames)]
                         ELSE surface
            /\ needs_redraw' = FALSE
       ELSE UNCHANGED <<surface, needs_redraw>>
    /\ phase' = "poll"
    /\ UNCHANGED <<topology, current_output, anchor, config, compact, width, height,
                   configured, locked, drag, file, gvars,
                   backlog, conn, served, connected, svars>>

\* A client connects to the control socket; it may already have written its line.
ClientConnects ==
    /\ connected < MaxClients
    /\ connected' = connected + 1
    /\ \E line \in ClientLines :
         backlog' = Append(backlog, [id |-> connected', line |-> line])
    /\ UNCHANGED <<pvars, gvars, phase, conn, served, surface, svars>>

\* A client that has written nothing writes its line or closes its end.
ClientSends ==
    /\ \E line \in ClientLines \ {NothingSent} :
         \/ /\ conn # <<>>
            /\ conn[1].line = NothingSent
            /\ conn' = <<[conn[1] EXCEPT !.line = line]>>
            /\ UNCHANGED backlog
         \/ /\ \E i \in 1..Len(backlog) :
                 /\ backlog[i].line = NothingSent
                 /\ backlog' = [backlog EXCEPT ![i].line = line]
            /\ UNCHANGED conn
    /\ UNCHANGED <<pvars, gvars, phase, served, connected, surface, svars>>

\* The steps of the daemon, then the steps of its clients.
NextLoop ==
    \/ PollCompositor
    \/ DispatchEvent
    \/ DispatchDone
    \/ Accept
    \/ AcceptWouldBlock
    \/ HandleRequest
    \/ ReadFails
    \/ Respond
    \/ Tick
    \/ Redraw
    \/ ClientConnects
    \/ ClientSends

SpecLoop == InitLoop /\ [][NextLoop]_vars

\* The daemon runs whenever it can take a step; clients are under no obligation.
SpecLoopFair ==
    /\ InitLoop
    /\ [][NextLoop]_vars
    /\ WF_vars(PollCompositor)
    /\ WF_vars(DispatchDone)
    /\ WF_vars(Accept)
    /\ WF_vars(AcceptWouldBlock)
    /\ WF_vars(HandleRequest)
    /\ WF_vars(ReadFails)
    /\ WF_vars(Respond)
    /\ WF_vars(Tick)
    /\ WF_vars(Redraw)

\* ---------------------------------------------------------------------------
\* get-state among the commands that change what it reports: SpecState
\* ---------------------------------------------------------------------------

StateQuery ==
    /\ GetState
    /\ query' = Request("get-state", "", StateResponse)
    /\ trail' = <<>>
    /\ UNCHANGED <<locked_press, lvars>>

\* Commands that change a reported field.
StateChange ==
    /\ \/ ToggleFace
       \/ ToggleCompact
       \/ ToggleLocked
       \/ \E size \in FontSizes : SetFontSize(size)
       \/ \E diameter \in Diameters : SetDiameter(diameter)
    /\ query' = Request("change", "", OkResponse)
    /\ trail' = <<>>
    /\ UNCHANGED <<locked_press, lvars>>

StateMove == \E name \in {"next", "DP-9"} :
    /\ MoveToOutput(name)
    /\ query' = Request("move-to-output", name, MoveToOutputResponse(name))
    /\ trail' = <<>>
    /\ UNCHANGED <<locked_press, lvars>>

StateConfigure ==
    /\ \E sz \in ConfigureSizes : Configure(sz[1], sz[2])
    /\ query' = Request("configure", "", OkResponse)
    /\ trail' = <<>>
    /\ UNCHANGED <<locked_press, lvars>>

\* The redraw step of the loop clears the flag.
StateRedraw ==
    /\ RedrawDue
    /\ needs_redraw' = FALSE
    /\ fx' = NoEffects
    /\ query' = Request("redraw", "", OkResponse)
    /\ trail' = <<>>
    /\ UNCHANGED <<topology, current_output, anchor, config, clock, configured,
                   locked, drag, file, locked_press, lvars>>

NextState ==
    \/ StateChange
    \/ StateMove
    \/ StateConfigure
    \/ StateRedraw
    \/ StateQuery

SpecState == InitReload /\ [][NextState]_vars

\* ---------------------------------------------------------------------------
\* The ctl client: SpecClient
\*
\* A response is a JSON object; the client looks at its fields ok and error.  A
\* JSON value is <<type, text>>, a field that is absent is <<>>.
\* ---------------------------------------------------------------------------

JsonTrue == <<"bool", "true">>
JsonFalse == <<"bool", "false">>

OkFields == {<<>>, JsonTrue, JsonFalse, <<"string", "true">>, <<"number", "1">>,
             <<"null", "null">>}
ErrorFields == {<<>>, <<"string", "Unknown face: binary">>, <<"number", "1">>}
ClientCommands == {"state", "quit", "face", "reload", "output"}

\* send_command: what the client reads back; <<>> is a stream closed unanswered.
Responses ==
    {<<>>} \cup {<<[ok |-> o, error |-> e]>> : o \in OkFields, e \in ErrorFields}

\* serde_json's Value::as_bool
AsBool(v) == IF v # <<>> /\ v[1] = "bool" THEN <<v[2] = "true">> ELSE <<>>

\* serde_json's Value::as_str
AsStr(v) == IF v # <<>> /\ v[1] = "string" THEN <<v[2]>> ELSE <<>>

\* The client fails only on ok:false (faulty variant).
ExitStatusUnlessFalse(resp) ==
    IF resp = <<>> \/ AsBool(resp[1].ok) = <<FALSE>> THEN 1 ELSE 0

\* ctl::run after send_command: the status the process exits with.
ExitStatus(resp) ==
    IF resp = <<>> THEN 1
    ELSE IF AsBool(resp[1].ok) = <<TRUE>> THEN 0 ELSE 1

\* What the client prints on stdout and stderr.
ClientOutput(command, resp) ==
    IF resp = <<>> THEN [out |-> <<>>, err |-> <<"Failed to parse response from clockie">>]
    ELSE IF AsBool(resp[1].ok) = <<TRUE>>
         THEN [out |-> IF command = "state" THEN resp ELSE <<>>, err |-> <<>>]
         ELSE [out |-> <<>>,
               err |-> <<"Error: ", UnwrapOr(AsStr(resp[1].error), "Unknown error")>>]

InitClient ==
    /\ outputs = <<"A", "B", "C">>
    /\ info = StaticInfo
    /\ Startup([status |-> "ok", doc |-> DefaultConfig])
    /\ current_output = NoOutput
    /\ fx = NoEffects
    /\ locked_press = FALSE
    /\ trail = <<>>
    /\ query = <<>>
    /\ phase = "poll"
    /\ backlog = <<>>
    /\ conn = <<>>
    /\ served = <<>>
    /\ connected = 0
    /\ surface = FreshSurface
    /\ should_quit = FALSE
    /\ running = TRUE
    /\ socket = 1
    /\ instances = <<"running">>
    /\ \E command \in ClientCommands, resp \in Responses :
         client = <<[command |-> command, resp |-> resp, status |-> <<>>,
                     output |-> [out |-> <<>>, err |-> <<>>]]>>

\* The client has its answer, prints and exits.
ClientExits ==
    /\ client[1].status = <<>>
    /\ client' = <<[client[1] EXCEPT
                      !.status = <<ExitStatus(client[1].resp)>>,
                      !.output = ClientOutput(client[1].command, client[1].resp)]>>
    /\ UNCHANGED <<pvars, gvars, phase, backlog, conn, served, connected, surface,
                   should_quit, running, socket, instances>>

NextClient == ClientExits

SpecClient == InitClient /\ [][NextClient]_vars

\* ---------------------------------------------------------------------------
\* Daemon startup on one socket path: SpecStartup
\*
\* Each instance goes through create_listener: the path-exists check, the
\* connect probe, the removal of a stale file, the bind.  An instance that runs
\* ends by a shutdown, which cleans up, or dies and leaves its file behind.
\* ---------------------------------------------------------------------------

\* cleanup_socket: the file at the socket path is removed if there is one.
CleanupSocket(sock) == NoSocket

Instances == 1..MaxInstances

InitStartup ==
    /\ outputs = <<"A", "B", "C">>
    /\ info = StaticInfo
    /\ Startup([status |-> "ok", doc |-> DefaultConfig])
    /\ current_output = NoOutput
    /\ fx = NoEffects
    /\ locked_press = FALSE
    /\ trail = <<>>
    /\ query = <<>>
    /\ phase = "poll"
    /\ backlog = <<>>
    /\ conn = <<>>
    /\ served = <<>>
    /\ connected = 0
    /\ surface = FreshSurface
    /\ should_quit = FALSE
    /\ running = TRUE
    /\ client = <<>>
    /\ socket = NoSocket
    /\ instances = [i \in Instances |-> "start"]

\* The listener of the file at the path accepts connections.
Listening == socket # NoSocket /\ instances[socket] = "running"

StartupStep(i, step, sock) ==
    /\ instances' = [instances EXCEPT ![i] = step]
    /\ socket' = sock
    /\ UNCHANGED <<pvars, gvars, phase, backlog, conn, served, connected, surface,
                   should_quit, running, client>>

\* create_listener: path.exists()
PathExists(i) ==
    /\ instances[i] = "start"
    /\ StartupStep(i, IF socket # NoSocket THEN "probe" ELSE "bind", socket)

\* create_listener: UnixStream::connect(path).is_ok() means another instance runs.
ConnectProbe(i) ==
    /\ instances[i] = "probe"
    /\ StartupStep(i, IF Listening THEN "failed" ELSE "remove", socket)

\* create_listener: remove_file(path)?
RemoveStale(i) ==
    /\ instances[i] = "remove"
    /\ IF socket # NoSocket
       THEN StartupStep(i, "bind", NoSocket)
       ELSE StartupStep(i, "failed", socket)

\* create_listener: UnixListener::bind(path)? creates the file or fails on one.
Bind(i) ==
    /\ instances[i] = "bind"
    /\ IF socket = NoSocket
       THEN StartupStep(i, "running", i)
       ELSE StartupStep(i, "failed", socket)

\* run() returns from its loop: cleanup_socket.
InstanceShutdown(i) ==
    /\ instances[i] = "running"
    /\ StartupStep(i, "exited", CleanupSocket(socket))

\* The process is killed, or run() returns with an error: no cleanup.
InstanceDies(i) ==
    /\ instances[i] = "running"
    /\ StartupStep(i, "died", socket)

NextStartup ==
    \/ \E i \in Instances : PathExists(i)
    \/ \E i \in Instances : ConnectProbe(i)
    \/ \E i \in Instances : RemoveStale(i)
    \/ \E i \in Instances : Bind(i)
    \/ \E i \in Instances : InstanceShutdown(i)
    \/ \E i \in Instances : InstanceDies(i)

SpecStartup == InitStartup /\ [][NextStartup]_vars

\* ---------------------------------------------------------------------------
\* Shutdown: SpecShutdown
\* ---------------------------------------------------------------------------

ShutdownLines == {"quit", "toggle-locked", NothingSent}

\* A client connects; its line may be the quit command.
ShutdownClientConnects ==
    /\ phase # "exited"
    /\ connected < MaxClients
    /\ connected' = connected + 1
    /\ \E line \in ShutdownLines :
         backlog' = Append(backlog, [id |-> connected', line |-> line])
    /\ UNCHANGED <<pvars, gvars, phase, conn, served, surface, svars>>

\* LayerShellHandler::closed, reached from dispatch_pending.
ClosedEvent ==
    /\ phase = "dispatch"
    /\ should_quit' = TRUE
    /\ fx' = NoEffects
    /\ UNCHANGED <<pvars, locked_press, trail, query, phase, backlog, conn, served,
                   connected, surface, running, socket, instances, client>>

\* The handler that ctrlc installs runs on a termination signal, at any moment.
Signal ==
    /\ phase # "exited"
    /\ running
    /\ running' = FALSE
    /\ UNCHANGED <<pvars, gvars, phase, backlog, conn, served, connected, surface,
                   should_quit, socket, instances, client>>

\* The top of the loop finds a shutdown flag set: break, cleanup_socket, return.
LoopExit ==
    /\ phase = "poll"
    /\ should_quit \/ ~running
    /\ phase' = "exited"
    /\ socket' = CleanupSocket(socket)
    /\ instances' = <<"exited">>
    /\ UNCHANGED <<pvars, gvars, backlog, conn, served, connected, surface,
                   should_quit, running, client>>

NextShutdown ==
    \/ PollCompositor
    \/ LoopExit
    \/ DispatchEvent
    \/ ClosedEvent
    \/ DispatchDone
    \/ Accept
    \/ AcceptWouldBlock
    \/ HandleRequest
    \/ ReadFails
    \/ Respond
    \/ Tick
    \/ Redraw
    \/ ShutdownClientConnects
    \/ ClientSends
    \/ Signal

\* The daemon runs whenever it can take a step; clients, the compositor and
\* signals are under no obligation.
SpecShutdown ==
    /\ InitLoop
    /\ [][NextShutdown]_vars
    /\ WF_vars(PollCompositor)
    /\ WF_vars(LoopExit)
    /\ WF_vars(DispatchDone)
    /\ WF_vars(Accept)
    /\ WF_vars(AcceptWouldBlock)
    /\ WF_vars(HandleRequest)
    /\ WF_vars(ReadFails)
    /\ WF_vars(Respond)
    /\ WF_vars(Tick)
    /\ WF_vars(Redraw)

\* ---------------------------------------------------------------------------
\* The redraw flag in the event loop: SpecRedraw
\* ---------------------------------------------------------------------------

\* The request lines of this specification, a connection that stays silent and one
\* that is closed without a line.
RedrawCommands ==
    {"toggle-face", "toggle-compact", "set-font-size", "set-diameter", "reload-config",
     "toggle-locked"}
RedrawLines == RedrawCommands \cup {NothingSent, ClosedUnsent}

\* The daemon runs on the default configuration; its file is readable or has been
\* damaged since startup.
InitRedraw ==
    /\ outputs = <<"A", "B", "C">>
    /\ info = StaticInfo
    /\ \E st \in {"ok", "invalid"} :
         Startup([status |-> st, doc |-> DefaultConfig])
    /\ current_output = "A"
    /\ fx = NoEffects
    /\ locked_press = FALSE
    /\ trail = <<>>
    /\ query = <<>>
    /\ LoopIdle

\* dispatch_pending: a configure event reaches its handler.
RedrawDispatch ==
    /\ phase = "dispatch"
    /\ Configure(0, 0)
    /\ surface' = SurfaceAfter(TRUE)
    /\ UNCHANGED <<locked_press, trail, query, phase, backlog, conn, served, connected, svars>>

\* handle_command on the command of a request line.
RedrawHandleLine(line) ==
    CASE line = "toggle-face" -> ToggleFace
      [] line = "toggle-compact" -> ToggleCompact
      [] line = "set-font-size" -> SetFontSize(MinFontSize)
      [] line = "set-diameter" -> SetDiameter(MinDiameter)
      [] line = "reload-config" -> ReloadConfig
      [] line = "toggle-locked" -> ToggleLocked
      [] OTHER -> FALSE

RedrawLineResponse(line) ==
    IF line = "reload-config" THEN ReloadConfigResponse ELSE OkResponse

\* handle_ipc_connection: read_command yields a command and handle_command runs it.
RedrawHandleRequest ==
    /\ phase = "read"
    /\ ReadReturns(conn[1].line)
    /\ conn[1].line \in RedrawCommands
    /\ RedrawHandleLine(conn[1].line)
    /\ query' = Request(conn[1].line, conn[1].id, RedrawLineResponse(conn[1].line))
    /\ served' = Append(served, [id |-> conn[1].id, event |-> "handled"])
    /\ surface' = SurfaceAfter(FALSE)
    /\ phase' = "respond"
    /\ UNCHANGED <<locked_press, trail, backlog, conn, connected, svars>>

\* handle_ipc_connection: read_command fails, the connection is dropped unanswered.
RedrawReadFails ==
    /\ phase = "read"
    /\ ReadReturns(conn[1].line)
    /\ conn[1].line \notin RedrawCommands
    /\ served' = Append(served, [id |-> conn[1].id, event |-> "dropped"])
    /\ conn' = <<>>
    /\ phase' = "accept"
    /\ UNCHANGED <<pvars, gvars, backlog, connected, surface, svars>>

RedrawClientConnects ==
    /\ connected < MaxClients
    /\ connected' = connected + 1
    /\ \E line \in RedrawLines :
         backlog' = Append(backlog, [id |-> connected', line |-> line])
    /\ UNCHANGED <<pvars, gvars, phase, conn, served, surface, svars>>

NextRedraw ==
    \/ PollCompositor
    \/ RedrawDispatch
    \/ DispatchDone
    \/ Accept
    \/ AcceptWouldBlock
    \/ RedrawHandleRequest
    \/ RedrawReadFails
    \/ Respond
    \/ Tick
    \/ Redraw
    \/ RedrawClientConnects

\* The daemon runs whenever it can take a step; clients are under no obligation.
SpecRedraw ==
    /\ InitRedraw
    /\ [][NextRedraw]_vars
    /\ WF_vars(PollCompositor)
    /\ WF_vars(DispatchDone)
    /\ WF_vars(Accept)
    /\ WF_vars(AcceptWouldBlock)
    /\ WF_vars(RedrawHandleRequest)
    /\ WF_vars(RedrawReadFails)
    /\ WF_vars(Respond)
    /\ WF_vars(Tick)
    /\ WF_vars(Redraw)

\* ---------------------------------------------------------------------------
\* Drags from a corner with neighbours on some sides only: SpecPrecedence
\* ---------------------------------------------------------------------------

\* The clock in a corner, each of its two margins 0 or DefaultMargin.
CornerAnchors == {<<"top", "left">>, <<"top", "right">>, <<"bottom", "left">>,
                  <<"bottom", "right">>}
CornerDocs ==
    {[DefaultConfig EXCEPT !.anchor = a, !.margin_top = v, !.margin_bottom = v,
                           !.margin_left = h, !.margin_right = h] :
        a \in CornerAnchors, v \in {0, DefaultMargin}, h \in {0, DefaultMargin}}

\* DP-2 is right of DP-1 and HDMI-A-1 below it; the clock is on any of the three.
InitPrecedence ==
    /\ outputs = <<"A", "B", "C">>
    /\ info = StaticInfo
    /\ \E d \in CornerDocs :
         Startup([status |-> "ok", doc |-> d])
    /\ current_output \in {"A", "B", "C"}
    /\ fx = NoEffects
    /\ locked_press = FALSE
    /\ trail = <<>>
    /\ query = <<>>
    /\ LoopIdle

NextPrecedence == Press \/ Motion \/ Leave

SpecPrecedence == InitPrecedence /\ [][NextPrecedence]_vars

\* ---------------------------------------------------------------------------
\* Lock commands in the middle of a drag: SpecLock
\* ---------------------------------------------------------------------------

NextLock == Press \/ PersistMotion \/ Leave \/ LockCommand

SpecLock == Init /\ [][NextLock]_vars

\* ---------------------------------------------------------------------------
\* Commands of the control socket in the middle of a drag: SpecInterleave
\* ---------------------------------------------------------------------------

NextInterleave == Press \/ PersistMotion \/ ReloadCommand \/ FaceToggle \/ StateMove

SpecInterleave == InitReload /\ [][NextInterleave]_vars

\* ---------------------------------------------------------------------------
\* Drag sessions of several motions, from margins of either sign: SpecPath
\* ---------------------------------------------------------------------------

\* The clock is on DP-1 with margins that are all DefaultMargin or all negative.
InitPath ==
    /\ outputs = <<"A", "B">>
    /\ info = StaticInfo
    /\ \E d \in {c \in ClampDocs : c.margin_top # MaxMargin} :
         Startup([status |-> "ok", doc |-> d])
    /\ current_output = "A"
    /\ fx = NoEffects
    /\ locked_press = FALSE
    /\ trail = <<>>
    /\ query = <<>>
    /\ LoopIdle

NextPath == Press \/ Motion \/ Release

SpecPath == InitPath /\ [][NextPath]_vars

\* ---------------------------------------------------------------------------
\* the output the clock is on, while outputs come and go: SpecTrack
\* ---------------------------------------------------------------------------

\* All three outputs are plugged in; the surface starts on one of them or on none.
InitTrack ==
    /\ outputs = <<"A", "B", "C">>
    /\ info = StaticInfo
    /\ Startup([status |-> "ok", doc |-> DefaultConfig])
    /\ current_output \in OutputIds \cup {NoOutput}
    /\ fx = NoEffects
    /\ locked_press = FALSE
    /\ trail = <<>>
    /\ query = <<>>
    /\ LoopIdle

\* The surface enters a plugged output, or leaves any output.
TrackSurface ==
    /\ \/ \E o \in Range(outputs) : SurfaceEnter(o)
       \/ \E o \in OutputIds : SurfaceLeave(o)
    /\ UNCHANGED <<locked_press, trail, query, lvars>>

\* An output is unplugged, or plugged in again.
TrackHotplug ==
    /\ \/ \E o \in Range(outputs) : OutputDestroyed(o)
       \/ \E o \in OutputIds \ Range(outputs) : NewOutput(o)
    /\ UNCHANGED <<locked_press, trail, query, lvars>>

NextTrack == TrackSurface \/ TrackHotplug \/ StateMove \/ StateQuery

SpecTrack == InitTrack /\ [][NextTrack]_vars

\* ---------------------------------------------------------------------------
\* The drain of the control socket around a quit command: SpecDrain
\* ---------------------------------------------------------------------------

\* One client more than in the other loops: a quit, and two connections behind it.
DrainClients == MaxClients + 1

\* What the clients of this specification have written when they connect.
DrainLines == {"quit", "toggle-locked", NothingSent}

InitDrain ==
    /\ outputs = <<"A", "B", "C">>
    /\ info = StaticInfo
    /\ Startup([status |-> "ok", doc |-> DefaultConfig])
    /\ current_output = PendingOutput([status |-> "ok", doc |-> DefaultConfig])
    /\ fx = NoEffects
    /\ locked_press = FALSE
    /\ trail = <<>>
    /\ query = <<>>
    /\ LoopIdle

\* dispatch_pending: the configure event of the surface reaches its handler.
DrainDispatch ==
    /\ phase = "dispatch"
    /\ Configure(0, 0)
    /\ surface' = SurfaceAfter(TRUE)
    /\ UNCHANGED <<locked_press, trail, query, phase, backlog, conn, served, connected, svars>>

\* handle_ipc_connection: read_command yields a command and handle_command runs it.
\* The first quit is recorded with the connections that wait in the queue at that
\* moment.
DrainHandleRequest ==
    /\ phase = "read"
    /\ ReadReturns(conn[1].line)
    /\ conn[1].line \in KnownCommands
    /\ HandleLine(conn[1].line)
    /\ query' = Request(conn[1].line, conn[1].id, LineResponse(conn[1].line))
    /\ served' = Append(served, [id |-> conn[1].id, event |-> "handled"])
    /\ surface' = SurfaceAfter(FALSE)
    /\ phase' = "respond"
    /\ trail' = IF conn[1].line = "quit" /\ trail = <<>>
                THEN <<[quit |-> conn[1].id, pending |-> Range(backlog)]>>
                ELSE trail
    /\ UNCHANGED <<locked_press, backlog, conn, connected, running, socket, instances,
                   client>>

DrainClientConnects ==
    /\ phase # "exited"
    /\ connected < DrainClients
    /\ connected' = connected + 1
    /\ \E line \in DrainLines :
         backlog' = Append(backlog, [id |-> connected', line |-> line])
    /\ UNCHANGED <<pvars, gvars, phase, conn, served, surface, svars>>

\* A client that has written nothing writes its line or closes its end.
DrainClientSends ==
    /\ \E line \in {"toggle-locked", ClosedUnsent} :
         \/ /\ conn # <<>>
            /\ conn[1].line = NothingSent
            /\ conn' = <<[conn[1] EXCEPT !.line = line]>>
            /\ UNCHANGED backlog
         \/ /\ \E i \in 1..Len(backlog) :
                 /\ backlog[i].line = NothingSent
                 /\ backlog' = [backlog EXCEPT ![i].line = line]
            /\ UNCHANGED conn
    /\ UNCHANGED <<pvars, gvars, phase, served, connected, surface, svars>>

NextDrain ==
    \/ PollCompositor
    \/ LoopExit
    \/ DrainDispatch
    \/ DispatchDone
    \/ Accept
    \/ AcceptWouldBlock
    \/ DrainHandleRequest
    \/ ReadFails
    \/ Respond
    \/ Tick
    \/ Redraw
    \/ DrainClientConnects
    \/ DrainClientSends

\* The daemon runs whenever it can take a step; clients are under no obligation.
SpecDrain ==
    /\ InitDrain
    /\ [][NextDrain]_vars
    /\ WF_vars(PollCompositor)
    /\ WF_vars(LoopExit)
    /\ WF_vars(DispatchDone)
    /\ WF_vars(Accept)
    /\ WF_vars(AcceptWouldBlock)
    /\ WF_vars(DrainHandleRequest)
    /\ WF_vars(ReadFails)
    /\ WF_vars(Respond)
    /\ WF_vars(Tick)
    /\ WF_vars(Redraw)

\* ------------------------------------------------------------------ claims

\* The vocabulary of the claims about placement.
OnlyLeft == "left" \in anchor /\ "right" \notin anchor
OnlyRight == "right" \in anchor /\ "left" \notin anchor
OnlyTop == "top" \in anchor /\ "bottom" \notin anchor
OnlyBottom == "bottom" \in anchor /\ "top" \notin anchor

\* The logical size of the current output is known.
GeometryKnown ==
    /\ current_output # NoOutput
    /\ Known(current_output)
    /\ info[current_output].logical_size # <<>>

\* The edge on the side of a direction, the opposite edge, the edges of the other axis.
EdgeOf(d) ==
    CASE d = "Left" -> "left" [] d = "Right" -> "right"
      [] d = "Up" -> "top" [] d = "Down" -> "bottom"
OppositeEdge(e) ==
    CASE e = "left" -> "right" [] e = "right" -> "left"
      [] e = "top" -> "bottom" [] e = "bottom" -> "top"
PerpendicularEdges(d) ==
    IF d \in {"Left", "Right"} THEN {"top", "bottom"} ELSE {"left", "right"}

\* The margin of an edge in a config.
MarginOf(cfg, e) ==
    CASE e = "left" -> cfg.margin_left [] e = "right" -> cfg.margin_right
      [] e = "top" -> cfg.margin_top [] e = "bottom" -> cfg.margin_bottom

\* The edge on d's side is the single anchored edge of its axis and its margin is 0.
AtEdge(d) ==
    /\ EdgeOf(d) \in anchor
    /\ OppositeEdge(EdgeOf(d)) \notin anchor
    /\ MarginOf(config, EdgeOf(d)) = 0

\* A left-button release, or a leave, that ends a drag session.
ReleaseEndsDrag == dragging /\ PointerRelease(BTN_LEFT)
LeaveEndsDrag == dragging /\ PointerLeave

\* On an axis with exactly one anchored edge, that edge's margin plus the window size
\* is at most the size of the current output, when that size is known.
AxisFit ==
    GeometryKnown =>
        /\ OnlyLeft => config.margin_left + width <= SizeOf(current_output)[1]
        /\ OnlyRight => config.margin_right + width <= SizeOf(current_output)[1]
        /\ OnlyTop => config.margin_top + height <= SizeOf(current_output)[2]
        /\ OnlyBottom => config.margin_bottom + height <= SizeOf(current_output)[2]

\* C1 (as claimed): in every reachable state the window fits its output on every axis
\* with exactly one anchored edge. Stated here for the states at rest only (surface
\* configured, no drag in progress), which the claim includes.
C1_AxisFitAtRest == (configured /\ ~dragging) => AxisFit

\* C2: a leave that ends a drag, chooses direction D and finds the adjacent output T
\* flips the anchored edge of D's axis, keeps the anchor edges of the other axis,
\* zeroes the margins of the crossed axis, keeps the margins of the other axis, makes
\* T the current output and marks the surface not configured.
C2_MigrationOnLeave ==
    [][(LeaveEndsDrag /\ LeaveDirection # NoDirection
          /\ FindAdjacentOutput(LeaveDirection) # NoOutput) =>
        LET d == LeaveDirection
            t == FindAdjacentOutput(d)
        IN /\ EdgeOf(d) \in anchor
           /\ EdgeOf(d) \notin anchor'
           /\ OppositeEdge(EdgeOf(d)) \in anchor'
           /\ anchor' \cap PerpendicularEdges(d) = anchor \cap PerpendicularEdges(d)
           /\ MarginOf(config', EdgeOf(d)) = 0
           /\ MarginOf(config', OppositeEdge(EdgeOf(d))) = 0
           /\ \A e \in PerpendicularEdges(d) : MarginOf(config', e) = MarginOf(config, e)
           /\ current_output' = t
           /\ configured' = FALSE
           /\ fx'.recreations = 1]_vars

\* C2 witness: the clock, anchored top right on DP-1 and configured, has migrated to
\* the left edge of DP-2.
C2_Witness ==
    /\ fx.recreations = 1
    /\ "output" \in fx.saved
    /\ current_output = "B"
    /\ anchor = {"top", "left"}
    /\ ~configured

\* C3: on a leave that ends a drag, the direction tried (if any) has its edge as the
\* single anchored edge of its axis with margin 0 at leave time, whatever the margin
\* was at the press; one direction at most is tried, one is tried whenever some edge
\* qualifies, and the surface is recreated at most once, on the output adjacent in
\* that direction.
C3_EdgeExit ==
    [][LeaveEndsDrag =>
        /\ LeaveDirection # NoDirection => AtEdge(LeaveDirection)
        /\ (\E d \in Directions : AtEdge(d)) => LeaveDirection \in Directions
        /\ Cardinality({d \in Directions : d = LeaveDirection}) <= 1
        /\ fx'.recreations <= 1
        /\ fx'.recreations = 1 =>
             /\ LeaveDirection # NoDirection
             /\ current_output' = FindAdjacentOutput(LeaveDirection)
        /\ fx'.recreations = 0 => UNCHANGED <<anchor, current_output, configured>>]_vars

\* C3 witness: a drag has ended in a migration downwards, from DP-1 to HDMI-A-1.
C3_Witness ==
    /\ fx.recreations = 1
    /\ current_output = "C"
    /\ "top" \in anchor
    /\ ~dragging

\* C4: a left press that arrives while the clock is locked (and no drag is in
\* progress) starts no drag session and takes no snapshot; until the next unlocked
\* press, motion, release and leave change no margin, nor the anchor, nor the
\* current output, and save nothing.
C4_LockedPressIgnored ==
    /\ [](locked_press => ~dragging)
    /\ [][(locked /\ PointerPress(BTN_LEFT, PressPosition)) => UNCHANGED drag]_vars
    /\ [][(locked_press /\ (Motion \/ Release \/ Leave)) =>
            /\ UNCHANGED <<config, anchor, current_output, file>>
            /\ fx'.saved = {}]_vars

\* C4 witness: the press was ignored and the clock is still locked, anchored to its
\* output's edge where a leave of a drag session would migrate.
C4_Witness ==
    /\ locked_press
    /\ locked
    /\ current_output = "A"
    /\ AtEdge("Right")

C6_Expected(pos) ==
    LET dx == AsI32(pos[1] - drag_start[1])
        dy == AsI32(pos[2] - drag_start[2])
    IN <<IF OnlyTop THEN Max(0, drag_margins[1] + dy) ELSE config.margin_top,
         IF OnlyRight THEN Max(0, drag_margins[2] - dx) ELSE config.margin_right,
         IF OnlyBottom THEN Max(0, drag_margins[3] - dy) ELSE config.margin_bottom,
         IF OnlyLeft THEN Max(0, drag_margins[4] + dx) ELSE config.margin_left>>

\* C6: while dragging, a motion at offset (dx, dy) in whole pixels from the press
\* position sets the margin of each single anchored edge to max(0, snapshot +- offset)
\* and leaves the other margins alone; nothing bounds the result from above.
C6_MotionRule ==
    [][\A pos \in MotionPositions :
        (dragging /\ PointerMotion(pos)) =>
            /\ Margins(config') = C6_Expected(pos)
            /\ UNCHANGED <<anchor, current_output, drag, file>>]_vars

\* C6 witness: in the middle of a drag the right margin has grown past what the
\* output leaves beside the window.
C6_Witness ==
    /\ dragging
    /\ GeometryKnown
    /\ OnlyRight
    /\ config.margin_right = drag_margins[2] + DragReach
    /\ config.margin_right + width > SizeOf(current_output)[1]

\* C7 (as claimed): a left release that ends a drag clears dragging, changes neither
\* anchor nor current output, does not recreate the surface, saves the margins exactly
\* when they differ from the snapshot, and leaves the margins clamped to the output.
C7_ReleaseClaim ==
    [][ReleaseEndsDrag =>
        /\ ~dragging'
        /\ UNCHANGED <<anchor, current_output>>
        /\ fx'.recreations = 0
        /\ ("margins" \in fx'.saved) <=> (Margins(config) # drag_margins)
        /\ AxisFit']_vars

\* The direction back.
OppositeDirection(d) ==
    CASE d = "Left" -> "Right" [] d = "Right" -> "Left"
      [] d = "Up" -> "Down" [] d = "Down" -> "Up"

\* Two half-open spans [p, p + s) and [q, q + t) overlap.
SpansOverlap(p, s, q, t) == p < q + t /\ q < p + s

\* b's left edge lies on a's right edge and their vertical spans overlap.
Beside(a, b) ==
    /\ PosOf(b)[1] = PosOf(a)[1] + SizeOf(a)[1]
    /\ SpansOverlap(PosOf(a)[2], SizeOf(a)[2], PosOf(b)[2], SizeOf(b)[2])

\* b's top edge lies on a's bottom edge and their horizontal spans overlap.
Beneath(a, b) ==
    /\ PosOf(b)[2] = PosOf(a)[2] + SizeOf(a)[2]
    /\ SpansOverlap(PosOf(a)[1], SizeOf(a)[1], PosOf(b)[1], SizeOf(b)[1])

\* The adjacency predicate of the claims: b is adjacent to a in direction d.
AdjacentTo(a, b, d) ==
    CASE d = "Right" -> Beside(a, b) [] d = "Left" -> Beside(b, a)
      [] d = "Down" -> Beneath(a, b) [] d = "Up" -> Beneath(b, a)

\* The known outputs other than a that are adjacent to a in direction d.
Candidates(a, d) == {o \in Range(outputs) \ {a} : AdjacentTo(a, o, d)}

\* No two known outputs cover a common pixel.
NoOverlap ==
    \A a, b \in Range(outputs) : a # b =>
        ~(/\ SpansOverlap(PosOf(a)[1], SizeOf(a)[1], PosOf(b)[1], SizeOf(b)[1])
          /\ SpansOverlap(PosOf(a)[2], SizeOf(a)[2], PosOf(b)[2], SizeOf(b)[2]))

\* C8 (as claimed): if find_adjacent from A in a direction returns B, then
\* find_adjacent from B in the opposite direction returns A. Stated here for the
\* layouts without overlapping outputs only, which the claim includes.
C8_SymmetryClaim ==
    (query # <<>> /\ query[3] # NoOutput /\ NoOverlap) =>
        FindAdjacentFrom(query[3], OppositeDirection(query[2])) = query[1]

\* C8 (amended): if find_adjacent from A in a direction returns B, then A is adjacent
\* to B in the opposite direction, so find_adjacent from B in the opposite direction
\* returns some output, and it returns A when A is the only output adjacent to B on
\* that side.
C8_Symmetry ==
    (query # <<>> /\ query[3] # NoOutput) =>
        LET a == query[1]
            b == query[3]
            back == OppositeDirection(query[2])
        IN /\ a # b
           /\ AdjacentTo(b, a, back)
           /\ FindAdjacentFrom(b, back) # NoOutput
           /\ Candidates(b, back) = {a} => FindAdjacentFrom(b, back) = a

\* C8 witness: DP-1 found HDMI-A-1 on its right, and is the only output on
\* HDMI-A-1's left, where the search back finds it.
C8_Witness ==
    /\ query = <<"A", "Right", "C">>
    /\ Candidates("C", "Left") = {"A"}
    /\ FindAdjacentFrom("C", "Left") = "A"

IndexOf(o) ==
    IF o \in Range(outputs) THEN (CHOOSE i \in 1..Len(outputs) : outputs[i] = o) - 1
    ELSE 0

\* The output at a 0-based index taken modulo the number of outputs.
OutputAt(i) == outputs[(i % Len(outputs)) + 1]

Handled(cmd, arg) == query'.cmd = cmd /\ query'.arg = arg

\* move-to-output cannot resolve its target: no known output has that exact name, or
\* next / prev is asked with fewer than two outputs.
Unresolvable(name) ==
    IF name \in {"next", "prev"} THEN Len(outputs) < 2
    ELSE \A o \in Range(outputs) : info[o].name # <<name>>

\* C11: a move-to-output whose target cannot be resolved answers ok:false with the
\* error "Output '<name>' not found", a set-face with a name other than digital or
\* analogue answers ok:false, and both leave every field of the controller and the
\* configuration file unchanged and recreate nothing.
C11_RejectedUnchanged ==
    [][/\ \A name \in OutputNames :
            (Handled("move-to-output", name) /\ MoveToOutput(name) /\ Unresolvable(name)) =>
                /\ query'.response = [ok |-> FALSE,
                                      error |-> <<"Output '", name, "' not found">>]
                /\ UNCHANGED pvars
                /\ fx' = NoEffects
       /\ \A face \in FaceNames \ {"digital", "analogue"} :
            (Handled("set-face", face) /\ SetFace(face)) =>
                /\ query'.response.ok = FALSE
                /\ UNCHANGED pvars
                /\ fx' = NoEffects]_vars

\* C11 witness: with one output known, move-to-output next was rejected after the
\* face had been changed.
C11_Witness ==
    /\ query # <<>>
    /\ query.cmd = "move-to-output"
    /\ query.arg = "next"
    /\ query.response.ok = FALSE
    /\ Len(outputs) = 1
    /\ config.face # file.doc.face

ReloadSucceeds == Handled("reload-config", "") /\ ReloadConfig /\ query'.response.ok

\* C14: a successful reload-config leaves face mode, compact flag and locked flag as
\* they were immediately before it, whatever the file says and whatever commands set
\* them.
C14_ReloadKeepsOverrides ==
    [][ReloadSucceeds =>
        /\ config'.face = config.face
        /\ compact' = compact
        /\ locked' = locked]_vars

\* C14 witness: after a successful reload the face and the compact flag differ from
\* the file's and the clock is locked.
C14_Witness ==
    /\ query # <<>>
    /\ query.cmd = "reload-config"
    /\ query.response.ok
    /\ file.status = "ok"
    /\ config.face # file.doc.face
    /\ compact # file.doc.compact
    /\ locked

C15_Reloaded(margin, single, out, win) ==
    IF (width' # width \/ height' # height) /\ GeometryKnown /\ single
    THEN Min(Max(margin, 0), Max(out - win, 0))
    ELSE margin

C16_ReloadIdempotent == Len(trail) = 2 => trail[1] = trail[2]

\* C17: a reload-config on a file that cannot be read or parsed answers ok:false
\* with an error message and changes no field of the controller: anchor, margins,
\* size, face, compact, locked, font settings, current output and redraw flag.
C17_ReloadFailure ==
    [][(Handled("reload-config", "") /\ ReloadConfig /\ file.status = "invalid") =>
        /\ query'.response.ok = FALSE
        /\ query'.response.error # <<>>
        /\ UNCHANGED pvars
        /\ fx' = NoEffects]_vars

\* C17 witness: a reload has failed on a broken file and the clock still shows the
\* analogue face, compact and locked, that commands had set.
C17_Witness ==
    /\ query # <<>>
    /\ query.cmd = "reload-config"
    /\ query.response.ok = FALSE
    /\ file.status = "invalid"
    /\ config.face = "analogue"
    /\ compact
    /\ locked
    /\ needs_redraw

\* Both sizes are at least their floors.
SizesFloored == config.font_size >= MinFontSize /\ config.diameter >= MinDiameter

C13_NoRedrawBeforeHandshake ==
    /\ [](surface.frames > 0 => surface.handshake)
    /\ [][surface'.frames > surface.frames =>
            /\ phase = "redraw"
            /\ configured
            /\ needs_redraw
            /\ surface.handshake]_vars
    /\ [][fx'.recreations = 1 /\ fx' # fx => surface' = FreshSurface /\ ~configured']_vars

\* A frame is on the surface that a move-to-output command created.
C13_Witness ==
    /\ surface.frames > 0
    /\ query # <<>>
    /\ query.cmd = "next"
    /\ query.response.ok
    /\ surface.handshake

\* ---------------------------------------------------------------------------
\* C19.  IPC ordering: connections are handled in the order the listener queued
\* and accept() returned them, one request per connection; a command's response
\* is written right after the command was handled, before the next connection's
\* command is dispatched, and writing it changes no program state: the effects
\* of the command, a surface migration and its configuration-file write
\* included, are complete by then.
\* ---------------------------------------------------------------------------
C19_IpcOrdering ==
    /\ [](\A k \in 1..Len(served) :
            /\ served[k].event = "responded" =>
                 /\ k > 1
                 /\ served[k - 1] = [id |-> served[k].id, event |-> "handled"]
            /\ served[k].event # "responded" =>
                 \A j \in 1..(k - 1) : served[j].id < served[k].id
            /\ (served[k].event = "handled" /\ k < Len(served)) =>
                 served[k + 1] = [id |-> served[k].id, event |-> "responded"])
    /\ [][(Len(served') > Len(served) /\ served'[Len(served')].event = "responded") =>
            /\ UNCHANGED pvars
            /\ query.arg = served'[Len(served')].id
            /\ (query.cmd = "next" /\ query.response.ok) =>
                 /\ fx = [saved |-> {"output"}, recreations |-> 1]
                 /\ surface = FreshSurface
                 /\ ~configured
                 /\ config.output = GetOutputNameOf(current_output)
                 /\ file.doc.output = config.output]_vars

\* Two connections were answered in turn, the second one a move to the next output.
C19_Witness ==
    /\ Len(served) = 4
    /\ served[4] = [id |-> 2, event |-> "responded"]
    /\ query.cmd = "next"
    /\ query.response.ok
    /\ fx.recreations = 1

\* ---------------------------------------------------------------------------
\* C20.  Loop progress: an iteration waits only at the bounded compositor poll;
\* draining the control socket never waits on a client, so whatever the clients
\* do, a client that connects and never sends a request line included, every
\* iteration completes and reaches the clock-tick and redraw steps.
\* ---------------------------------------------------------------------------
C20_LoopProgress ==
    /\ []<>(phase = "tick")
    /\ []<>(phase = "redraw")
    /\ [](phase = "read" => <>(phase # "read"))

\* ---------------------------------------------------------------------------
\* C21.  Shutdown: the quit command, a compositor close notification or a
\* termination signal sets a shutdown flag that is never cleared; the command in
\* flight completes and its ok response is written; the flag is consulted at the
\* top of the next loop iteration; the loop then exits, handling no further
\* compositor event or IPC command, and the socket file is removed.
\* ---------------------------------------------------------------------------
ShutdownRequested == should_quit \/ ~running

C21_ShutdownSteps ==
    /\ [][ShutdownRequested => ShutdownRequested']_vars
    /\ [][(Len(served') > Len(served) /\ served'[Len(served')].event = "handled"
            /\ query'.cmd = "quit") =>
            /\ should_quit'
            /\ query'.response = OkResponse
            /\ phase' = "respond"]_vars
    /\ [][(phase' = "exited" /\ phase # "exited") =>
            /\ phase = "poll"
            /\ ShutdownRequested
            /\ socket' = NoSocket]_vars
    /\ [][(phase = "poll" /\ ShutdownRequested) =>
            UNCHANGED <<pvars, served, surface>>]_vars
    /\ [][phase = "exited" =>
            UNCHANGED <<pvars, served, surface, phase, socket>>]_vars

C21_Shutdown ==
    /\ C21_ShutdownSteps
    /\ [](phase = "respond" => <>(phase # "respond"))
    /\ ShutdownRequested ~> (phase = "exited" /\ socket = NoSocket)

\* ---------------------------------------------------------------------------
\* C22.  Malformed IPC request: a request line that does not decode to a known
\* command is rejected before dispatch; no controller state changes; the
\* connection receives a decode error, not an ok response, and is closed;
\* connections accepted after it are still served.
\* ---------------------------------------------------------------------------
MalformedRead == phase = "read" /\ conn[1].line = Malformed /\ Len(served') > Len(served)

C22_MalformedSteps ==
    /\ [][MalformedRead =>
            /\ UNCHANGED <<pvars, should_quit, query, fx, surface>>
            /\ served'[Len(served')].event # "handled"
            /\ conn' = <<>>
            /\ phase' = "accept"]_vars
    /\ [](\A k \in 1..Len(served) :
            served[k].event = "dropped" =>
                \A j \in 1..(k - 1) : served[j].id < served[k].id)

C22_MalformedRejected ==
    /\ C22_MalformedSteps
    /\ [][MalformedRead => served'[Len(served')].event = "responded"]_vars

\* ---------------------------------------------------------------------------
\* C23.  Client exit status: for every response the ctl client receives, it
\* exits with a non-zero status if and only if the response's ok field is not
\* true.
\* ---------------------------------------------------------------------------
C23_ExitStatus ==
    \A k \in 1..Len(client) :
        (client[k].status # <<>> /\ client[k].resp # <<>>) =>
            (client[k].status[1] # 0 <=> client[k].resp[1].ok # JsonTrue)

\* The client has exited on a response whose ok field is the string "true".
C23_Witness ==
    /\ client # <<>>
    /\ client[1].status = <<1>>
    /\ client[1].resp # <<>>
    /\ client[1].resp[1].ok = <<"string", "true">>

\* ---------------------------------------------------------------------------
\* C24.  Single instance per socket path: under every interleaving of the
\* startup steps of the instances at most one instance ends up running, and
\* while an instance runs the socket file at the path is there and belongs to a
\* running instance.
\* ---------------------------------------------------------------------------
RunningInstances == {i \in DOMAIN instances : instances[i] = "running"}

C24_SingleInstance ==
    /\ Cardinality(RunningInstances) <= 1
    /\ RunningInstances # {} => socket \in RunningInstances

\* ---------------------------------------------------------------------------
\* C25.  Migration persistence: after a pointer-leave that migrates the window
\* the configuration file holds the new output name, the new margins and the
\* flipped anchor, so that a reload-config issued immediately afterwards leaves
\* the anchor and the margins in memory unchanged.
\* ---------------------------------------------------------------------------
LeaveMigrates == dragging /\ PointerLeave /\ fx'.recreations = 1

JustMigrated == fx.recreations = 1 /\ "margins" \in fx.saved

MigratedThenReloaded == JustMigrated /\ query' # <<>> /\ ReloadSucceeds

C25_MigrationPersisted ==
    /\ [][LeaveMigrates =>
            /\ file'.doc.output = config'.output
            /\ Margins(file'.doc) = Margins(config')
            /\ ParseAnchor(file'.doc.anchor) = anchor']_vars
    /\ [][MigratedThenReloaded =>
            /\ anchor' = anchor
            /\ Margins(config') = Margins(config)]_vars

\* The part of C25 that the code keeps: output name and margins are in the file,
\* and the reload leaves the margins as they are.
C25_OutputAndMargins ==
    /\ [][LeaveMigrates =>
            /\ file'.doc.output = config'.output
            /\ Margins(file'.doc) = Margins(config')]_vars
    /\ [][MigratedThenReloaded => Margins(config') = Margins(config)]_vars

\* ---------------------------------------------------------------------------
\* C26.  Persistence touches only its own fields: a margin write changes only
\* the four margin keys of the file and an output write only the output key;
\* every other key of the file is unchanged; when the file cannot be read,
\* parsed or written the write is skipped, and the margins, the anchor and the
\* output in memory keep their new values.
\* ---------------------------------------------------------------------------
MarginKeys == {"margin_top", "margin_right", "margin_bottom", "margin_left"}

KeysWritten(saved) ==
    (IF "margins" \in saved THEN MarginKeys ELSE {}) \cup
    (IF "output" \in saved THEN {"output"} ELSE {})

C26_PersistenceFrame ==
    /\ [][(file' # file /\ file'.status = file.status) => fx'.saved # {}]_vars
    /\ [][fx'.saved # {} =>
            /\ file'.status = file.status
            /\ \A k \in DOMAIN file.doc \ KeysWritten(fx'.saved) :
                 file'.doc[k] = file.doc[k]
            /\ file.status = "ok" =>
                 /\ "margins" \in fx'.saved => Margins(file'.doc) = Margins(config')
                 /\ "output" \in fx'.saved => file'.doc.output = config'.output
            /\ file.status # "ok" => file' = file
            /\ "output" \in fx'.saved =>
                 config'.output = GetOutputNameOf(current_output')
            /\ ("margins" \in fx'.saved /\ fx'.recreations = 0) =>
                 /\ config' = config
                 /\ anchor' = anchor
            /\ ("margins" \in fx'.saved /\ fx'.recreations = 1) =>
                 /\ anchor' = MigrateAnchor(anchor, LeaveDirection)
                 /\ Margins(config') = Margins(MigrateConfig(config, LeaveDirection))]_vars

\* A migrating leave has called both writes on a file that it cannot write: the
\* file is as before and the output in memory is the new one.
C26_Witness ==
    /\ fx = [saved |-> {"margins", "output"}, recreations |-> 1]
    /\ file.status = "readonly"
    /\ file.doc.output # config.output

\* ---------------------------------------------------------------------------
\* C27.  get-state is a pure query: it changes no controller state, the redraw
\* flag included, and writes no file; its snapshot reports the face, compact
\* flag, width, height, font size, diameter, locked flag and current output name
\* as the commands and events processed before it have left them.
\* ---------------------------------------------------------------------------
C27_GetStatePure ==
    [][(Handled("get-state", "") /\ query' # query) =>
        /\ UNCHANGED pvars
        /\ fx' = NoEffects
        /\ query'.response.ok
        /\ query'.response.state.face = config.face
        /\ query'.response.state.compact = compact
        /\ query'.response.state.width = width
        /\ query'.response.state.height = height
        /\ query'.response.state.font_size = config.font_size
        /\ query'.response.state.diameter = config.diameter
        /\ query'.response.state.locked = locked
        /\ query'.response.state.output =
             (IF current_output # NoOutput /\ Known(current_output)
              THEN info[current_output].name ELSE <<>>)]_vars

\* A snapshot taken after a face, compact, lock, size and output command and a
\* configure event with a size: it shows all of them, and no redraw is pending.
C27_Witness ==
    /\ query # <<>>
    /\ query.cmd = "get-state"
    /\ query.response.state.face = "analogue"
    /\ query.response.state.compact
    /\ query.response.state.locked
    /\ query.response.state.width = 400
    /\ query.response.state.diameter = MaxDiameter
    /\ query.response.state.output = <<"DP-2">>
    /\ ~needs_redraw

\* ---------------------------------------------------------------------------
\* C28.  Clamp routine: when the logical size (out_w, out_h) of the current
\* output is known and non-zero, a size change made by update_size is followed
\* by clamp_margins, which sets the margin of the single anchored edge of each
\* axis to min(max(margin, 0), max(out_size - window_size, 0)) and leaves the
\* margin of a non-anchored edge, and both margins of an axis with both or
\* neither edge anchored, as they are.
\* ---------------------------------------------------------------------------
GeometryUsable ==
    /\ current_output # NoOutput
    /\ Known(current_output)
    /\ info[current_output].logical_size # <<>>
    /\ info[current_output].logical_size[1] # 0
    /\ info[current_output].logical_size[2] # 0

SizeChanges == width' # width \/ height' # height

C28_Clamped(margin, single, out, win) ==
    IF single THEN Min(Max(margin, 0), Max(out - win, 0)) ELSE margin

C28_ClampRoutine ==
    [][(SizeChanges /\ GeometryUsable) =>
        LET out == info[current_output].logical_size
        IN /\ config'.margin_left =
                C28_Clamped(config.margin_left, OnlyLeft, out[1], width')
           /\ config'.margin_right =
                C28_Clamped(config.margin_right, OnlyRight, out[1], width')
           /\ config'.margin_top =
                C28_Clamped(config.margin_top, OnlyTop, out[2], height')
           /\ config'.margin_bottom =
                C28_Clamped(config.margin_bottom, OnlyBottom, out[2], height')]_vars

\* A size command has shrunk the margin of the anchored edge to what the output
\* leaves beside the clock, and the opposite margin is still beyond it.
C28_Witness ==
    /\ GeometryUsable
    /\ query # <<>>
    /\ OnlyRight
    /\ info[current_output].logical_size[1] > width
    /\ config.margin_right = info[current_output].logical_size[1] - width
    /\ config.margin_left = MaxMargin

\* ---------------------------------------------------------------------------
\* C29.  Clamp without geometry: when current_output is unset, the output is no
\* longer known, or its logical size is unknown or has a zero dimension,
\* clamp_margins changes no margin and the calling command still completes
\* with ok.
\* ---------------------------------------------------------------------------
C29_ClampSkipped ==
    [][(SizeChanges /\ ~GeometryUsable) =>
        /\ Margins(config') = Margins(config)
        /\ query'.response = OkResponse]_vars

\* A size command has completed on an output without a logical size, and the
\* margins are still out of any range.
C29_Witness ==
    /\ current_output = "B"
    /\ info["B"].logical_size = <<>>
    /\ query # <<>>
    /\ query.cmd = "set-font-size"
    /\ query.response.ok
    /\ config.font_size = MaxFontSize
    /\ Margins(config) = <<-DefaultMargin, -DefaultMargin, -DefaultMargin, -DefaultMargin>>

\* ---------------------------------------------------------------------------
\* C30.  No neighbour means stay put: on pointer-leave while dragging, if no
\* direction qualifies or the chosen direction has no adjacent output (also
\* when the current output is unset or not in the list of outputs), anchor,
\* current_output and the configured flag are unchanged, the surface is not
\* recreated, the margins keep their dragged values, and the margins are
\* written to the configuration file only if they differ from the snapshot
\* taken at the press.
\* ---------------------------------------------------------------------------
NoNeighbour ==
    \/ LeaveDirection = NoDirection
    \/ FindAdjacentOutput(LeaveDirection) = NoOutput

LeaveStays == dragging /\ PointerLeave /\ NoNeighbour

C30_StayPut ==
    [][LeaveStays =>
        /\ anchor' = anchor
        /\ current_output' = current_output
        /\ configured' = configured
        /\ fx'.recreations = 0
        /\ config' = config
        /\ "output" \notin fx'.saved
        /\ ("margins" \in fx'.saved) <=> (Margins(config) # drag_margins)
        /\ file' = IF Margins(config) # drag_margins
                   THEN SaveMarginsToConfig(file, Margins(config)) ELSE file]_vars

\* The clock was dragged to the edge of an output that is not in the list, the
\* pointer left, and the clock stayed with its dragged margins saved.
C30_Witness ==
    /\ ~dragging
    /\ current_output = "C"
    /\ LeaveDirection # NoDirection
    /\ fx.saved = {"margins"}
    /\ fx.recreations = 0
    /\ Margins(file.doc) = Margins(config)
    /\ Margins(config) # drag_margins

\* ---------------------------------------------------------------------------
\* C31.  scale-by acts on the active face only: in digital mode scale-by delta
\* sets the font size to max(font_size + delta, 10) and leaves the diameter
\* unchanged; in analogue mode it sets the diameter to max(diameter + delta, 40)
\* and leaves the font size unchanged, for every diameter of the unsigned word
\* and every delta of the signed word, with no wrap-around of the sum.
\* ---------------------------------------------------------------------------
C31_Scaled(delta) ==
    IF config.face = "digital"
    THEN /\ config'.font_size = Max(config.font_size + delta, MinFontSize)
         /\ config'.diameter = config.diameter
    ELSE /\ config'.diameter = Max(config.diameter + delta, MinDiameter)
         /\ config'.font_size = config.font_size

C31_ScaleBy ==
    [][\A delta \in WideDeltas :
         (ScaleCommand(delta) \/ ScalePanic(delta)) => C31_Scaled(delta)]_vars

\* What does hold: scale-by changes the size of the active face only, the digital rule
\* holds for every delta, and the analogue rule holds when the diameter is within i32
\* and the sum does not leave i32.
C31_ScaleWithinI32 ==
    [][\A delta \in WideDeltas :
         /\ ScaleCommand(delta) =>
              /\ config.face = "digital" => C31_Scaled(delta)
              /\ config.face = "analogue" => config'.font_size = config.font_size
              /\ config'.face = config.face
         /\ ((ScaleCommand(delta) \/ ScalePanic(delta)) /\ config.diameter <= I32Max
               /\ ~ScaleOverflows(config.diameter, delta)) => C31_Scaled(delta)]_vars

\* ---------------------------------------------------------------------------
\* C32.  Redraw scheduling: every command that changes face, compact flag, font
\* size or diameter, every successful reload-config, every configure event and
\* every rollover of the wall-clock second sets the redraw flag; in each loop
\* iteration at most one frame is drawn, after all compositor events and all
\* pending IPC commands of that iteration have been applied, and drawing clears
\* the redraw flag; if the surface stays configured, a set redraw flag always
\* leads to a drawn frame.
\* ---------------------------------------------------------------------------
SizeLines == {"toggle-face", "toggle-compact", "set-font-size", "set-diameter"}

FrameDrawn == phase = "redraw" /\ Redraw /\ RedrawDue /\ DrawsFrame

\* The rules of the single steps.
C32_RedrawSteps ==
    [][/\ (RedrawHandleRequest /\ conn[1].line \in SizeLines) => needs_redraw'
       /\ (RedrawHandleRequest /\ conn[1].line = "reload-config"
             /\ query'.response.ok) => needs_redraw'
       /\ RedrawDispatch => needs_redraw'
       /\ (needs_redraw /\ ~needs_redraw') => FrameDrawn
       /\ (~needs_redraw /\ needs_redraw' /\ phase = "tick") => phase' = "redraw"
       /\ FrameDrawn =>
            /\ ~needs_redraw'
            /\ conn = <<>>
            /\ phase' = "poll"
       /\ surface'.frames > surface.frames =>
            /\ FrameDrawn
            /\ surface'.frames = surface.frames + 1]_vars

C32_RedrawScheduling ==
    /\ C32_RedrawSteps
    /\ (configured /\ needs_redraw) ~> (~needs_redraw \/ ~configured)

\* ---------------------------------------------------------------------------
\* C33.  Direction precedence with no fallback: on pointer-leave while dragging,
\* single-anchored edges whose margin is 0 now and was greater than 0 at the
\* press are considered first, in the order Left, Right, Up, Down; only if none
\* qualifies are edges whose margin is simply 0 considered, in the same order;
\* the first qualifying direction is the only one tried, so when it has no
\* adjacent output no migration happens even if another qualifying direction
\* has one.
\* ---------------------------------------------------------------------------
DirectionOrder == <<"Left", "Right", "Up", "Down">>

\* The margin of an edge in the snapshot taken at the press.
SnapshotOf(e) ==
    CASE e = "top" -> drag_margins[1] [] e = "right" -> drag_margins[2]
      [] e = "bottom" -> drag_margins[3] [] e = "left" -> drag_margins[4]

AtEdgeNow(d) ==
    /\ EdgeOf(d) \in anchor
    /\ OppositeEdge(EdgeOf(d)) \notin anchor
    /\ MarginOf(config, EdgeOf(d)) = 0

DraggedToEdge(d) == AtEdgeNow(d) /\ SnapshotOf(EdgeOf(d)) > 0

FirstDragged ==
    DirectionOrder[CHOOSE i \in 1..4 :
        /\ DraggedToEdge(DirectionOrder[i])
        /\ \A j \in 1..(i - 1) : ~DraggedToEdge(DirectionOrder[j])]

FirstAtEdge ==
    DirectionOrder[CHOOSE i \in 1..4 :
        /\ AtEdgeNow(DirectionOrder[i])
        /\ \A j \in 1..(i - 1) : ~AtEdgeNow(DirectionOrder[j])]

DirectionTried ==
    IF \E d \in Directions : DraggedToEdge(d) THEN FirstDragged
    ELSE IF \E d \in Directions : AtEdgeNow(d) THEN FirstAtEdge
    ELSE NoDirection

C33_DirectionPrecedence ==
    [][(dragging /\ PointerLeave) =>
        LET d == DirectionTried
            target == IF d = NoDirection THEN NoOutput ELSE FindAdjacentOutput(d)
        IN /\ fx'.recreations = (IF target # NoOutput THEN 1 ELSE 0)
           /\ target # NoOutput =>
                /\ current_output' = target
                /\ anchor' = MigrateAnchor(anchor, d)
           /\ target = NoOutput =>
                /\ current_output' = current_output
                /\ anchor' = anchor]_vars

\* A drag ended with the pointer leaving and the clock stayed: the direction tried
\* has no neighbour, another edge at margin 0 has one.
C33_Witness ==
    /\ ~dragging
    /\ drag_start = PressPosition
    /\ fx.recreations = 0
    /\ DirectionTried # NoDirection
    /\ FindAdjacentOutput(DirectionTried) = NoOutput
    /\ \E d \in Directions : AtEdgeNow(d) /\ FindAdjacentOutput(d) # NoOutput

\* ---------------------------------------------------------------------------
\* C34.  Lock commands have no effect on a drag in progress: set-locked and
\* toggle-locked change only the locked flag; they leave the dragging flag, the
\* press snapshot and the margins unchanged, so a drag session that was started
\* while unlocked keeps changing margins on motion and can still migrate on
\* leave after locked becomes true.
\* ---------------------------------------------------------------------------
LockStep == ToggleLocked \/ \E l \in BOOLEAN : SetLocked(l)

C34_LockLeavesDrag ==
    [][/\ LockStep =>
            UNCHANGED <<topology, current_output, anchor, config, clock, configured,
                        needs_redraw, drag, file>>
       /\ \A pos \in PersistPositions :
            (dragging /\ locked /\ PointerMotion(pos)) =>
                Margins(config') = C6_Expected(pos)
       /\ (dragging /\ locked /\ PointerLeave) =>
            LET d == LeaveDirection
                target == IF d = NoDirection THEN NoOutput ELSE FindAdjacentOutput(d)
            IN /\ ~dragging'
               /\ current_output' = IF target # NoOutput THEN target ELSE current_output
               /\ fx'.recreations = (IF target # NoOutput THEN 1 ELSE 0)]_vars

\* The clock was locked in the middle of a drag, was dragged on to the edge and has
\* migrated on the leave.
C34_Witness ==
    /\ locked
    /\ ~dragging
    /\ ~locked_press
    /\ fx.recreations = 1
    /\ Margins(config) # drag_margins

\* ---------------------------------------------------------------------------
\* C35.  IPC commands interleaved with a drag do not refresh the drag snapshot:
\* reload-config, move-to-output and size-changing commands processed between a
\* press and the end of the drag leave the dragging flag and the snapshot of the
\* margins taken at the press unchanged, so the next motion event recomputes the
\* single-anchored margins from that snapshot and overwrites the margins
\* installed by the reload or the clamp.
\* ---------------------------------------------------------------------------
InterleavedCommand == ReloadConfig \/ ToggleFace \/ \E name \in OutputNames : MoveToOutput(name)

C35_SnapshotKept ==
    [][/\ (dragging /\ InterleavedCommand) => UNCHANGED drag
       /\ \A pos \in PersistPositions :
            (dragging /\ PointerMotion(pos)) =>
                /\ Margins(config') = C6_Expected(pos)
                /\ UNCHANGED drag]_vars

\* A reload in the middle of a drag has installed the margins of the file, which are
\* not those of the snapshot, and the motion after it has set the anchored margin from
\* the snapshot again.
C35_Witness ==
    /\ dragging
    /\ query # <<>>
    /\ query.cmd = "reload-config"
    /\ query.response.ok
    /\ OnlyRight
    /\ Margins(file.doc) # drag_margins
    /\ config.margin_right # file.doc.margin_right
    /\ config.margin_right = drag_margins[2] - DragReach

\* ---------------------------------------------------------------------------
\* C36 (as claimed).  Drag path independence: during one drag session with no
\* interleaved IPC command, the margins after a motion event depend only on the
\* snapshot taken at the press, the anchor and the current pointer offset, not
\* on earlier motion events; in particular a motion back to the press position
\* restores all four margins to the snapshot.
\* ---------------------------------------------------------------------------
C36_FromSnapshot(pos, floor) ==
    LET dx == AsI32(pos[1] - drag_start[1])
        dy == AsI32(pos[2] - drag_start[2])
        at(single, v) == IF single /\ floor THEN Max(0, v) ELSE v
    IN <<at(OnlyTop, drag_margins[1] + (IF OnlyTop THEN dy ELSE 0)),
         at(OnlyRight, drag_margins[2] - (IF OnlyRight THEN dx ELSE 0)),
         at(OnlyBottom, drag_margins[3] - (IF OnlyBottom THEN dy ELSE 0)),
         at(OnlyLeft, drag_margins[4] + (IF OnlyLeft THEN dx ELSE 0))>>

C36_PathIndependenceClaim ==
    [][/\ \A pos \in MotionPositions :
            (dragging /\ PointerMotion(pos)) =>
                Margins(config') = C36_FromSnapshot(pos, TRUE)
       /\ (dragging /\ PointerMotion(PressPosition)) =>
            Margins(config') = drag_margins]_vars

\* C36 (amended): during one drag session with no interleaved IPC command, the
\* margins after a motion event depend only on the snapshot, the anchor and the
\* current pointer offset: every single-anchored margin is max(snapshot +- offset, 0)
\* and every other margin is its snapshot value.  A motion back to the press
\* position so sets every single-anchored margin to max(snapshot, 0): all four
\* margins are those of the snapshot unless a single-anchored one was negative at
\* the press, which becomes 0.
C36_PathIndependence ==
    [][/\ \A pos \in MotionPositions :
            (dragging /\ PointerMotion(pos)) =>
                Margins(config') = C36_FromSnapshot(pos, TRUE)
       /\ (dragging /\ PointerMotion(PressPosition)) =>
            /\ Margins(config') = C36_FromSnapshot(PressPosition, TRUE)
            /\ (\A i \in 1..4 : drag_margins[i] >= 0) => Margins(config') = drag_margins
            /\ (OnlyRight /\ drag_margins[2] < 0) => config'.margin_right = 0]_vars

\* In the middle of a drag the pointer is back where it was pressed after a motion
\* elsewhere could have been made; the right margin, negative at the press, is 0.
C36_Witness ==
    /\ dragging
    /\ OnlyRight
    /\ drag_margins[2] < 0
    /\ config.margin_right = 0
    /\ config.margin_bottom = drag_margins[3]
    /\ config.margin_bottom < 0

\* C37: current_output is set to T by a recreation of the surface on T and by a
\* surface-enter event for T; it is cleared only by a surface-leave event for the
\* output it names, and a surface-leave for another output leaves it as it is; the
\* removal of an output does not clear it; while it names no known output,
\* find_adjacent_output is None for every direction and get-state reports no output
\* name.
OutputUnknown == current_output = NoOutput \/ current_output \notin Range(outputs)

C37_Set ==
    /\ \A o \in OutputIds : SurfaceEnter(o) => current_output' = o
    /\ \A name \in {"next", "DP-9"} :
         (MoveToOutput(name) /\ fx'.recreations > 0)
            => (current_output' = MoveTarget(name) /\ current_output' # NoOutput)
    /\ (current_output' # current_output /\ current_output' # NoOutput)
          => (SurfaceEnter(current_output') \/ fx'.recreations > 0)

C37_Cleared ==
    /\ \A o \in OutputIds :
         SurfaceLeave(o) => current_output' = (IF o = current_output THEN NoOutput
                                               ELSE current_output)
    /\ (current_output # NoOutput /\ current_output' = NoOutput)
          => SurfaceLeave(current_output)
    /\ \A o \in OutputIds :
         OutputDestroyed(o) => (o \notin Range(outputs') /\ current_output' = current_output)

C37_Unknown ==
    OutputUnknown =>
        /\ \A d \in Directions : FindAdjacentOutput(d) = NoOutput
        /\ (GetState /\ query' # <<>> /\ query'.cmd = "get-state")
              => query'.response.state.output = <<>>

C37_OutputTracking == [][C37_Set /\ C37_Cleared /\ C37_Unknown]_vars

\* The clock is on an output that was unplugged, and get-state has just reported no
\* output name.
C37_Witness ==
    /\ current_output # NoOutput
    /\ current_output \notin Range(outputs)
    /\ query # <<>>
    /\ query.cmd = "get-state"
    /\ query.response.state.output = <<>>

\* C38: connections already waiting on the control socket when a quit command is
\* handled are accepted, and their commands executed and answered, in the same drain
\* of that loop iteration; a frame may still be drawn; only then does the loop read
\* the shutdown flag, at the top of the next iteration, and exit.
PendingAtQuit == IF trail = <<>> THEN {} ELSE trail[1].pending

EventOf(id, event) == \E k \in 1..Len(served) : served[k] = [id |-> id, event |-> event]

Settled(id) == EventOf(id, "responded") \/ EventOf(id, "dropped")

Unsettled(id) == \E c \in PendingAtQuit : c.id = id /\ ~Settled(id)

InDrain == phase \in {"accept", "read", "respond"}

BlockedRead == phase = "read" /\ conn[1].line = NothingSent

C38_SameDrain ==
    /\ [](\A c \in PendingAtQuit : ~Settled(c.id) => (InDrain /\ should_quit))
    /\ [](\A c \in PendingAtQuit :
            (c.line \in KnownCommands /\ Settled(c.id))
               => (EventOf(c.id, "handled") /\ EventOf(c.id, "responded")))
    /\ [][(phase' = "exited" /\ phase # "exited") => (phase = "poll" /\ should_quit)]_vars

C38_StillRuns ==
    /\ [][(should_quit /\ phase = "accept" /\ backlog # <<>> /\ phase' # phase)
            => (phase' = "read" /\ conn' = <<backlog[1]>>)]_vars
    /\ [][(should_quit /\ phase = "read" /\ conn[1].line = "toggle-locked"
             /\ phase' # phase)
            => (locked' = ~locked /\ phase' = "respond")]_vars
    /\ [][(should_quit /\ phase = "redraw" /\ configured /\ needs_redraw
             /\ phase' # phase)
            => (surface'.frames = Min(surface.frames + 1, MaxFrames)
                /\ ~needs_redraw')]_vars

====
